---------------------------- MODULE Spec2Model ----------------------------
(***************************************************************************)
(* PetPal relay backend: the WebSocket handlers of backend/main.py,        *)
(* hf_space/app/api/routes/live_ws.py and health_ws.py as state machines.  *)
(* One step of a handler is the code between two awaits.  The client and   *)
(* the upstream generation API are the environment.                        *)
(***************************************************************************)
EXTENDS Integers, Sequences, FiniteSets, TLC

\* ------------------------------------------------------------------ bounds
MaxMsgs == 2      \* client frames sent per connection
MaxChunks == 2    \* upstream events delivered per connection
MaxLen == 2       \* length of a media payload in bytes
MaxResults == 2   \* memories a Mem0 search returns
MaxText == 2      \* symbols in a dog name or a user message given to a prompt builder
MaxPieces == 2    \* pieces a reply text of the model is put together from

\* ------------------------------------------------------------- base64 codec
Pad == 64         \* the symbol '='; 0..63 are the alphabet, above 64 is a non-alphabet character

\* the media payloads the clients send: the two longest prefixes of
\* b"\x01\x02\xff\xff...", so that both a padded and a differently padded
\* base64 text occur
PayloadByte(i) == IF i <= 2 THEN i ELSE 255
Payload(n) == [i \in 1..n |-> PayloadByte(i)]
ByteSeqs == {Payload(n) : n \in (MaxLen - 1)..MaxLen}

\* base64.b64encode: three bytes to four symbols, '=' padded
RECURSIVE B64Encode(_)
B64Encode(B) ==
  IF Len(B) = 0 THEN <<>>
  ELSE IF Len(B) = 1 THEN
    << B[1] \div 4, (B[1] % 4) * 16, Pad, Pad >>
  ELSE IF Len(B) = 2 THEN
    << B[1] \div 4, (B[1] % 4) * 16 + B[2] \div 16, (B[2] % 16) * 4, Pad >>
  ELSE
    << B[1] \div 4, (B[1] % 4) * 16 + B[2] \div 16,
       (B[2] % 16) * 4 + B[3] \div 64, B[3] % 64 >>
    \o B64Encode(SubSeq(B, 4, Len(B)))

\* binascii.a2b_base64 in its default non-strict mode, which b64decode calls:
\* non-alphabet characters are skipped, a completed pad sequence stops the
\* parse, a dangling quad raises binascii.Error (ok = FALSE).
RECURSIVE a2b_base64(_, _, _, _, _)
a2b_base64(S, quad_pos, leftchar, pads, out) ==
  IF S = <<>> THEN [ok |-> quad_pos = 0, bytes |-> out]
  ELSE LET ch == Head(S)
           rest == Tail(S)
       IN IF ch = Pad THEN
            IF quad_pos >= 2 /\ quad_pos + pads + 1 >= 4
              THEN [ok |-> TRUE, bytes |-> out]
              ELSE a2b_base64(rest, quad_pos, leftchar,
                              IF quad_pos >= 2 THEN pads + 1 ELSE pads, out)
          ELSE IF ch > Pad THEN a2b_base64(rest, quad_pos, leftchar, pads, out)
          ELSE IF quad_pos = 0 THEN a2b_base64(rest, 1, ch, 0, out)
          ELSE IF quad_pos = 1 THEN
            a2b_base64(rest, 2, ch % 16, 0, Append(out, leftchar * 4 + ch \div 16))
          ELSE IF quad_pos = 2 THEN
            a2b_base64(rest, 3, ch % 4, 0, Append(out, leftchar * 16 + ch \div 4))
          ELSE a2b_base64(rest, 0, 0, 0, Append(out, leftchar * 64 + ch))

B64DecodeDropsLast(S) ==
  LET r == a2b_base64(S, 0, 0, 0, <<>>)
  IN [ok |-> r.ok,
      bytes |-> IF Len(r.bytes) = 0 THEN r.bytes
                ELSE SubSeq(r.bytes, 1, Len(r.bytes) - 1)]

B64Decode(S) == a2b_base64(S, 0, 0, 0, <<>>)


\* ------------------------------------------------------- sessions and frames
Conns == {"c1", "c2"}            \* client connections (one handler invocation each)
SessionIds == {"s1", "s2"}       \* values of the {session_id} path parameter
NoConn == "none"

BackendEps == {"bvoice", "bvideo"}   \* backend/main.py /ws/voice, /ws/video
LiveEp == "live"                     \* live_ws.py /ws/live

\* JSON frames of /ws/video and /ws/live.  type "missing" is a frame without a
\* "type" key; has_data = FALSE is a frame without a "data" key.
BadB64 == <<1>>
FramePayload == <<255>>
RelayMsgs ==
  {[type |-> "audio", has_data |-> TRUE, data |-> B64Encode(B)] : B \in ByteSeqs}
  \cup {[type |-> "audio", has_data |-> TRUE, data |-> BadB64],
        [type |-> "audio", has_data |-> FALSE, data |-> <<>>]}
  \cup {[type |-> t, has_data |-> TRUE, data |-> B64Encode(FramePayload)] :
          t \in {"video_frame", "video"}}
  \cup {[type |-> t, has_data |-> FALSE, data |-> <<>>] :
          t \in {"config", "stop", "text", "missing"}}

\* config frames of /ws/live that carry "dog_name", "dog_id" or both (the
\* config frame of RelayMsgs carries neither)
LiveConfigMsgs ==
  {[type |-> "config", has_data |-> FALSE, data |-> <<>>, dog_name |-> "Rex"],
   [type |-> "config", has_data |-> FALSE, data |-> <<>>, dog_id |-> "rex"],
   [type |-> "config", has_data |-> FALSE, data |-> <<>>,
    dog_name |-> "Rex", dog_id |-> "rex"]}

\* hf_space/app.py /ws/voice, /ws/video and the JSON frames of its /ws/video
\* (type "not_json" is a text frame that json.loads rejects)
AppEps == {"avoice", "avideo"}
AppVideoMsgs ==
  {[type |-> t, has_data |-> FALSE, data |-> <<>>] :
     t \in {"video_frame", "text_query", "text", "missing", "not_json"}}

\* binary frames of /ws/voice
VoiceFrames == {[type |-> "bytes", has_data |-> TRUE, data |-> B] : B \in ByteSeqs}

\* JSON requests of /ws/consultation, /ws/prescription, /ws/vaccination; ""
\* is a missing or empty field, and a request may lack "message" or "dog_id"
HealthEps == {"consult", "presc", "vacc"}
DogIds == {"default", "rex"}
ConsultMsgs ==
  {[message |-> m, dog_id |-> d, mode |-> "text"] :
     m \in {"", "limping"}, d \in DogIds}
  \cup {[dog_id |-> "rex", mode |-> "text"], [message |-> "limping", mode |-> "text"]}

\* requests of /ws/consultation in the other modes, in a mode the prompt
\* builder does not know, and without "mode"
ConsultModeMsgs ==
  {[message |-> "limping", dog_id |-> "rex", mode |-> k] :
     k \in {"voice", "video", "emergency", "triage"}}
  \cup {[message |-> "limping", dog_id |-> "rex"]}

\* requests of /ws/prescription and /ws/vaccination for another dog or
\* without "dog_id"
SubjectMsgs ==
  {[action |-> a, item |-> "aspirin", dog_id |-> "bo"] : a \in {"add", "list"}}
  \cup {[action |-> a, item |-> "aspirin"] : a \in {"add", "list"}}
PrescMsgs ==
  {[action |-> a, item |-> i, dog_id |-> "rex"] :
     a \in {"add", "list", "check_interaction", "refill"}, i \in {"", "aspirin"}}
VaccMsgs ==
  {[action |-> a, item |-> i, dog_id |-> "rex"] :
     a \in {"add", "list", "booster_due", "refill"}, i \in {"", "rabies"}}

\* POST /health/text: the message texts of the requests, and the values
\* hash() gives a str
TextMessages == {"limping", "itchy"}
DogNames == {"Rex", "Bo"}
TextRequests == {[message |-> m, dog_name |-> d] : m \in TextMessages, d \in DogNames}
HashValues == {-1234567890, 12345, 1234567891, 1234567892}

\* what the upstream live connection hands to a pending receive: a response
\* with model_turn parts, the end of the turn, or an exception (closed: whether
\* its text contains "closed")
UpPayload == <<1, 255>>
AudioPart == [inline |-> TRUE, data |-> UpPayload, text |-> FALSE]
TextPart == [inline |-> FALSE, data |-> <<>>, text |-> TRUE]
PartSeqs == {<<>>, <<AudioPart>>, <<TextPart>>, <<AudioPart, TextPart>>}
UpEvents ==
  {[kind |-> "response", parts |-> P, closed |-> FALSE] : P \in PartSeqs}
  \cup {[kind |-> "turn_complete", parts |-> <<>>, closed |-> FALSE]}
  \cup {[kind |-> "error", parts |-> <<>>, closed |-> b] : b \in BOOLEAN}

\* the exception a send on a closed client socket raises
SendErrors == {"WebSocketDisconnect", "RuntimeError"}

VARIABLES
  active_sessions,   \* backend/main.py registry: session id -> owning handler
  ep,                \* endpoint a connection was routed to ("none" before)
  sid,               \* its session_id
  pc,                \* position of the handler coroutine
  exc,               \* exception in flight in the handler
  recv_task,         \* inbound relay task: none | run | done | failed | cancelled
  send_task,         \* outbound relay task
  is_running,        \* live_session's flag
  upstream,          \* the handler's live connection: none | open | closed
  client_open,       \* the client has not closed its socket
  inbox,             \* the client frame in flight (at most one)
  n_client,          \* frames the client has sent
  n_up,              \* events the upstream has delivered
  up_calls,          \* send_realtime_input calls issued, in order
  recv_calls,        \* session.receive() calls issued, with their outcome
  client_log,        \* sends attempted on the client socket, in order
  seen_disconnect,   \* WebSocketDisconnect has been raised in the handler
  printed,           \* the error lines the handler has printed
  genai_client,      \* live_ws.py / health_ws.py: client is not None
  mem0_service,      \* app.state.mem0_service: absent | no_client | ok
  health_sessions,   \* health_ws.py active_sessions: the handlers registered
  mem_calls,         \* Mem0 backend calls issued, in order
  gen_calls,         \* generate_content calls issued: TRUE returned, FALSE raised
  dog_name,          \* live_session's local dog_name ("none" before it is set)
  dog_id,            \* live_session's local dog_id
  app_sessions,      \* hf_space/app.py registry: session id -> owning handler
  up_log,            \* model_turn.parts of the responses the upstream delivered
  mem_ret,           \* the last Mem0HealthService call: its inputs and outcome
  prompt_ret,        \* the last prompt builder call: its inputs and the prompt
  req_log,           \* health_ws.py: per request handled, the frame and the steps taken
  text_app,          \* a process serving POST /health/text: its str hash, its replies
  server_closed,     \* the handler has called websocket.close()
  ignored,           \* live_session: frames read that matched no branch
  check_ret          \* the last interaction check: the model's reply and the message sent

vars == << active_sessions, ep, sid, pc, exc, recv_task, send_task, is_running,
           upstream, client_open, inbox, n_client, n_up, up_calls, recv_calls,
           client_log, seen_disconnect, printed, genai_client, mem0_service,
           health_sessions, mem_calls, gen_calls, dog_name, dog_id,
           app_sessions, up_log, mem_ret, prompt_ret,
           req_log, text_app, server_closed, ignored,
           check_ret >>

InitConns ==
  /\ active_sessions = [s \in SessionIds |-> NoConn]
  /\ ep = [c \in Conns |-> "none"]
  /\ sid = [c \in Conns |-> "none"]
  /\ pc = [c \in Conns |-> "idle"]
  /\ exc = [c \in Conns |-> "none"]
  /\ recv_task = [c \in Conns |-> "none"]
  /\ send_task = [c \in Conns |-> "none"]
  /\ is_running = [c \in Conns |-> FALSE]
  /\ upstream = [c \in Conns |-> "none"]
  /\ client_open = [c \in Conns |-> FALSE]
  /\ inbox = [c \in Conns |-> <<>>]
  /\ n_client = [c \in Conns |-> 0]
  /\ n_up = [c \in Conns |-> 0]
  /\ up_calls = [c \in Conns |-> <<>>]
  /\ recv_calls = [c \in Conns |-> <<>>]
  /\ client_log = [c \in Conns |-> <<>>]
  /\ seen_disconnect = [c \in Conns |-> FALSE]
  /\ printed = [c \in Conns |-> {}]
  /\ health_sessions = {}
  /\ mem_calls = [c \in Conns |-> <<>>]
  /\ gen_calls = [c \in Conns |-> <<>>]
  /\ up_log = [c \in Conns |-> <<>>]
  /\ app_sessions = [s \in SessionIds |-> NoConn]
  /\ dog_name = [c \in Conns |-> "none"]
  /\ dog_id = [c \in Conns |-> "none"]
  /\ mem_ret = [fn |-> "none"]
  /\ prompt_ret = [fn |-> "none"]
  /\ req_log = [c \in Conns |-> <<>>]
  /\ text_app = [app |-> "none", hash |-> [m \in TextMessages |-> 0], replies |-> <<>>]
  /\ check_ret = [fn |-> "none"]
  /\ server_closed = [c \in Conns |-> FALSE]
  /\ ignored = [c \in Conns |-> 0]

\* backend/main.py builds its client in the handler from a fixed key and has
\* no memory service
InitBackend == InitConns /\ genai_client = TRUE /\ mem0_service = "absent"

\* live_ws.py: GOOGLE_API_KEY is read once at import, set or not
InitRelay == InitConns /\ genai_client \in BOOLEAN /\ mem0_service = "absent"

\* health_ws.py: the key set or not; the memory service missing from
\* app.state, built without a client, or built with one
InitHealth ==
  /\ InitConns
  /\ genai_client \in BOOLEAN
  /\ mem0_service \in {"absent", "no_client", "ok"}

\* ------------------------------------------------------------------ helpers
\* one attempted send on the client socket
Sent(c, type, data) ==
  [type |-> type, data |-> data, ok |-> client_open[c],
   after_disconnect |-> seen_disconnect[c]]

\* send_realtime_input(audio={"data": ..., "mime_type": "audio/pcm"})
AudioCall(bytes, ok) ==
  [op |-> "audio", mime |-> "audio/pcm", data |-> bytes, ok |-> ok]

\* backend: send_realtime_input(media_chunks=[{..., "mime_type": "image/jpeg"}])
MediaChunksCall(bytes, ok) ==
  [op |-> "media_chunks", mime |-> "image/jpeg", data |-> bytes, ok |-> ok]

\* live_session: send_realtime_input(video={..., "mime_type": "image/jpeg"})
VideoCall(bytes, ok) ==
  [op |-> "video", mime |-> "image/jpeg", data |-> bytes, ok |-> ok]

\* every inline part taken twice
InlinePartsTwice(parts) ==
  SelectSeq(parts, LAMBDA p : p.inline) \o SelectSeq(parts, LAMBDA p : p.inline)

\* the parts of a response the backend handlers forward: bytes inline data
InlineParts(parts) == SelectSeq(parts, LAMBDA p : p.inline)

\* the sends of a list of payloads: all succeed on an open socket, the first
\* one raises on a closed one
RECURSIVE SendAll(_, _, _)
SendAll(c, type, datas) ==
  IF datas = <<>> THEN <<>>
  ELSE IF ~client_open[c] THEN << Sent(c, type, Head(datas)) >>
  ELSE << Sent(c, type, Head(datas)) >> \o SendAll(c, type, Tail(datas))

MapSeq(f(_), s) == [i \in 1..Len(s) |-> f(s[i])]

SetLast(s, v) == [s EXCEPT ![Len(s)] = v]

\* the handler ends without removing its entry
PopKeeps(reg, s) == reg

\* active_sessions.pop(session_id, None)
Pop(reg, s) == [reg EXCEPT ![s] = NoConn]

\* --------------------------------------------------------------- environment
\* the client opens a socket and the server accepts it (websocket.accept())
Accept(c, e, s) ==
  /\ pc[c] = "idle"
  /\ ep' = [ep EXCEPT ![c] = e]
  /\ sid' = [sid EXCEPT ![c] = s]
  /\ pc' = [pc EXCEPT ![c] = "accepted"]
  /\ client_open' = [client_open EXCEPT ![c] = TRUE]
  /\ UNCHANGED << active_sessions, exc, recv_task, send_task, is_running, upstream,
                  inbox, n_client, n_up, up_calls, recv_calls, client_log,
                  seen_disconnect, printed, genai_client, mem0_service,
                  health_sessions, mem_calls, gen_calls, dog_name, dog_id,
                  app_sessions, up_log, mem_ret, prompt_ret, req_log, text_app,
                  server_closed, ignored, check_ret >>

FramesOf(e) ==
  IF e \in {"bvoice", "avoice"} THEN VoiceFrames
  ELSE IF e = "avideo" THEN AppVideoMsgs
  ELSE IF e = "consult" THEN ConsultMsgs \cup ConsultModeMsgs
  ELSE IF e = "presc" THEN PrescMsgs \cup SubjectMsgs
  ELSE IF e = "vacc" THEN VaccMsgs \cup SubjectMsgs
  ELSE IF e = LiveEp THEN RelayMsgs \cup LiveConfigMsgs
  ELSE RelayMsgs

ClientSend(c, m) ==
  /\ client_open[c]
  /\ m \in FramesOf(ep[c])
  /\ inbox[c] = <<>>
  /\ n_client[c] < MaxMsgs
  /\ inbox' = [inbox EXCEPT ![c] = << m >>]
  /\ n_client' = [n_client EXCEPT ![c] = @ + 1]
  /\ UNCHANGED << active_sessions, ep, sid, pc, exc, recv_task, send_task, is_running,
                  upstream, client_open, n_up, up_calls, recv_calls, client_log,
                  seen_disconnect, printed, genai_client, mem0_service,
                  health_sessions, mem_calls, gen_calls, dog_name, dog_id,
                  app_sessions, up_log, mem_ret, prompt_ret, req_log, text_app,
                  server_closed, ignored, check_ret >>

ClientClose(c) ==
  /\ client_open[c]
  /\ client_open' = [client_open EXCEPT ![c] = FALSE]
  /\ UNCHANGED << active_sessions, ep, sid, pc, exc, recv_task, send_task, is_running,
                  upstream, inbox, n_client, n_up, up_calls, recv_calls, client_log,
                  seen_disconnect, printed, genai_client, mem0_service,
                  health_sessions, mem_calls, gen_calls, dog_name, dog_id,
                  app_sessions, up_log, mem_ret, prompt_ret, req_log, text_app,
                  server_closed, ignored, check_ret >>

\* ------------------------------------------- backend/main.py: both handlers
\* the ready message is sent before the live connection is attempted
BackendConnectAnnounces(c) ==
  /\ pc[c] = "accepted"
  /\ ep[c] \in BackendEps
  /\ client_log' = [client_log EXCEPT ![c] = Append(@, Sent(c, "ready", <<>>))]
  /\ exc' = [exc EXCEPT ![c] = "Exception"]
  /\ pc' = [pc EXCEPT ![c] = IF ep[c] = "bvoice" THEN "error" ELSE "closing"]
  /\ UNCHANGED << active_sessions, ep, sid, recv_task, send_task, is_running, upstream,
                  client_open, inbox, n_client, n_up, up_calls, recv_calls,
                  seen_disconnect, printed, genai_client, mem0_service,
                  health_sessions, mem_calls, gen_calls, dog_name, dog_id,
                  app_sessions, up_log, mem_ret, prompt_ret, req_log, text_app,
                  server_closed, ignored, check_ret >>

\* client.aio.live.connect(...) entered, then active_sessions[session_id] = session
BackendConnect(c) ==
  /\ pc[c] = "accepted"
  /\ ep[c] \in BackendEps
  /\ \E ok \in BOOLEAN :
       IF ok THEN
         /\ upstream' = [upstream EXCEPT ![c] = "open"]
         /\ active_sessions' = [active_sessions EXCEPT ![sid[c]] = c]
         /\ pc' = [pc EXCEPT ![c] = "ready"]
         /\ UNCHANGED << exc, printed >>
       ELSE IF ep[c] = "bvoice" THEN
         \* except Exception: print; the error message is sent next
         /\ exc' = [exc EXCEPT ![c] = "Exception"]
         /\ printed' = [printed EXCEPT ![c] = @ \cup {"Voice error"}]
         /\ pc' = [pc EXCEPT ![c] = "error"]
         /\ UNCHANGED << upstream, active_sessions >>
       ELSE
         \* video: except Exception prints; finally pops
         /\ exc' = [exc EXCEPT ![c] = "Exception"]
         /\ printed' = [printed EXCEPT ![c] = @ \cup {"Video error"}]
         /\ active_sessions' = Pop(active_sessions, sid[c])
         /\ pc' = [pc EXCEPT ![c] = "done"]
         /\ UNCHANGED upstream
  /\ UNCHANGED << ep, sid, recv_task, send_task, is_running, client_open, inbox,
                  n_client, n_up, up_calls, recv_calls, client_log, seen_disconnect,
                  genai_client, mem0_service, health_sessions, mem_calls, gen_calls,
                  dog_name, dog_id, app_sessions, up_log, mem_ret, prompt_ret, req_log,
                  text_app, server_closed, ignored, check_ret >>

\* await websocket.send_text(json.dumps({"type": "ready"})); voice then creates
\* the two relay tasks and waits, video enters its loop
BackendReady(c) ==
  /\ pc[c] = "ready"
  /\ client_log' = [client_log EXCEPT ![c] = Append(@, Sent(c, "ready", <<>>))]
  /\ IF client_open[c] THEN
       /\ IF ep[c] = "bvoice" THEN
            /\ recv_task' = [recv_task EXCEPT ![c] = "run"]
            /\ send_task' = [send_task EXCEPT ![c] = "run"]
            /\ recv_calls' = [recv_calls EXCEPT ![c] = Append(@, "pending")]
            /\ pc' = [pc EXCEPT ![c] = "wait"]
          ELSE
            /\ pc' = [pc EXCEPT ![c] = "recv"]
            /\ UNCHANGED << recv_task, send_task, recv_calls >>
       /\ UNCHANGED << exc, seen_disconnect >>
     ELSE
       /\ \E e \in SendErrors :
            /\ exc' = [exc EXCEPT ![c] = e]
            /\ seen_disconnect' = [seen_disconnect EXCEPT ![c] = @ \/ e = "WebSocketDisconnect"]
       /\ pc' = [pc EXCEPT ![c] = "closing"]
       /\ UNCHANGED << recv_task, send_task, recv_calls >>
  /\ UNCHANGED << active_sessions, ep, sid, is_running, upstream, client_open, inbox,
                  n_client, n_up, up_calls, printed, genai_client, mem0_service,
                  health_sessions, mem_calls, gen_calls, dog_name, dog_id,
                  app_sessions, up_log, mem_ret, prompt_ret, req_log, text_app,
                  server_closed, ignored, check_ret >>

\* the "async with" block is left: the live connection is closed; then the
\* except clauses and "finally: active_sessions.pop(session_id, None)"
BackendExit(c) ==
  /\ ep[c] \in BackendEps
  /\ pc[c] = "closing"
  /\ upstream' = [upstream EXCEPT ![c] = "closed"]
  /\ IF ep[c] = "bvoice" /\ exc[c] \in {"RuntimeError", "Exception"} THEN
       \* voice, except Exception: print, then the error message is sent
       /\ printed' = [printed EXCEPT ![c] = @ \cup {"Voice error"}]
       /\ pc' = [pc EXCEPT ![c] = "error"]
       /\ UNCHANGED active_sessions
     ELSE
       \* voice, except WebSocketDisconnect or no exception; video, where
       \* except Exception only prints
       /\ printed' = [printed EXCEPT ![c] =
            IF ep[c] = "bvideo" /\ exc[c] # "none" THEN @ \cup {"Video error"} ELSE @]
       /\ active_sessions' = Pop(active_sessions, sid[c])
       /\ pc' = [pc EXCEPT ![c] = "done"]
  /\ UNCHANGED << ep, sid, exc, recv_task, send_task, is_running, client_open, inbox,
                  n_client, n_up, up_calls, recv_calls, client_log, seen_disconnect,
                  genai_client, mem0_service, health_sessions, mem_calls, gen_calls,
                  dog_name, dog_id, app_sessions, up_log, mem_ret, prompt_ret, req_log,
                  text_app, server_closed, ignored, check_ret >>

\* voice, except Exception: await websocket.send_text({"type": "error", ...}),
\* then finally
VoiceError(c) ==
  /\ pc[c] = "error"
  /\ ep[c] = "bvoice"
  /\ client_log' = [client_log EXCEPT ![c] = Append(@, Sent(c, "error", <<>>))]
  /\ \E e \in SendErrors :
       seen_disconnect' = [seen_disconnect EXCEPT ![c] =
         @ \/ (~client_open[c] /\ e = "WebSocketDisconnect")]
  /\ active_sessions' = Pop(active_sessions, sid[c])
  /\ pc' = [pc EXCEPT ![c] = "done"]
  /\ UNCHANGED << ep, sid, exc, recv_task, send_task, is_running, upstream,
                  client_open, inbox, n_client, n_up, up_calls, recv_calls, printed,
                  genai_client, mem0_service, health_sessions, mem_calls, gen_calls,
                  dog_name, dog_id, app_sessions, up_log, mem_ret, prompt_ret, req_log,
                  text_app, server_closed, ignored, check_ret >>

\* ------------------------------------------------ backend/main.py: voice
\* _receive_from_client: one receive_bytes() and its send_realtime_input; an
\* exception of the upstream call is not caught and ends the task
VoiceRecv(c) ==
  /\ ep[c] = "bvoice"
  /\ recv_task[c] = "run"
  /\ inbox[c] # <<>>
  /\ inbox' = [inbox EXCEPT ![c] = <<>>]
  /\ \E ok \in BOOLEAN :
       /\ up_calls' = [up_calls EXCEPT ![c] = Append(@, AudioCall(inbox[c][1].data, ok))]
       /\ recv_task' = [recv_task EXCEPT ![c] = IF ok THEN "run" ELSE "failed"]
  /\ UNCHANGED << active_sessions, ep, sid, pc, exc, send_task, is_running, upstream,
                  client_open, n_client, n_up, recv_calls, client_log, seen_disconnect,
                  printed, genai_client, mem0_service, health_sessions, mem_calls,
                  gen_calls, dog_name, dog_id, app_sessions, up_log, mem_ret,
                  prompt_ret, req_log, text_app, server_closed, ignored, check_ret >>

\* _receive_from_client: receive_bytes() raises WebSocketDisconnect: break
VoiceRecvDisconnect(c) ==
  /\ ep[c] = "bvoice"
  /\ recv_task[c] = "run"
  /\ inbox[c] = <<>>
  /\ ~client_open[c]
  /\ recv_task' = [recv_task EXCEPT ![c] = "done"]
  /\ seen_disconnect' = [seen_disconnect EXCEPT ![c] = TRUE]
  /\ UNCHANGED << active_sessions, ep, sid, pc, exc, send_task, is_running, upstream,
                  client_open, inbox, n_client, n_up, up_calls, recv_calls, client_log,
                  printed, genai_client, mem0_service, health_sessions, mem_calls,
                  gen_calls, dog_name, dog_id, app_sessions, up_log, mem_ret,
                  prompt_ret, req_log, text_app, server_closed, ignored, check_ret >>

\* _send_to_client: the pending upstream read returns
VoiceSend(c, ev) ==
  /\ ep[c] = "bvoice"
  /\ send_task[c] = "run"
  /\ n_up[c] < MaxChunks
  /\ n_up' = [n_up EXCEPT ![c] = @ + 1]
  /\ up_log' = [up_log EXCEPT ![c] =
       IF ev.kind = "response" THEN Append(@, ev.parts) ELSE @]
  /\ IF ev.kind = "response" THEN
       LET datas == MapSeq(LAMBDA p : p.data, InlineParts(ev.parts))
           raised == datas # <<>> /\ ~client_open[c]
       IN /\ client_log' = [client_log EXCEPT ![c] = @ \o SendAll(c, "bytes", datas)]
          \* except Exception: print, break
          /\ send_task' = [send_task EXCEPT ![c] = IF raised THEN "done" ELSE "run"]
          /\ \E e \in SendErrors :
               seen_disconnect' = [seen_disconnect EXCEPT ![c] =
                 @ \/ (raised /\ e = "WebSocketDisconnect")]
          /\ printed' = [printed EXCEPT ![c] =
               IF raised THEN @ \cup {"Send error"} ELSE @]
          /\ UNCHANGED recv_calls
     ELSE IF ev.kind = "turn_complete" THEN
       \* the turn is exhausted: while True calls session.receive() again
       /\ recv_calls' = [recv_calls EXCEPT ![c] = Append(SetLast(@, "complete"), "pending")]
       /\ UNCHANGED << client_log, send_task, seen_disconnect, printed >>
     ELSE
       \* except Exception: print, break
       /\ recv_calls' = [recv_calls EXCEPT ![c] = SetLast(@, "failed")]
       /\ send_task' = [send_task EXCEPT ![c] = "done"]
       /\ printed' = [printed EXCEPT ![c] = @ \cup {"Send error"}]
       /\ UNCHANGED << client_log, seen_disconnect >>
  /\ UNCHANGED << active_sessions, ep, sid, pc, exc, recv_task, is_running, upstream,
                  client_open, inbox, n_client, up_calls, genai_client, mem0_service,
                  health_sessions, mem_calls, gen_calls, dog_name, dog_id,
                  app_sessions, mem_ret, prompt_ret, req_log, text_app, server_closed,
                  ignored, check_ret >>

Finished(t) == t \in {"done", "failed"}

\* asyncio.wait(..., return_when=ALL_COMPLETED) would wait for both tasks
VoiceWaitAll(c) == Finished(recv_task[c]) /\ Finished(send_task[c])

\* asyncio.wait([receive_task, send_task], return_when=FIRST_COMPLETED) returns
VoiceWaitReturns(c) == Finished(recv_task[c]) \/ Finished(send_task[c])

\* the wait returns; "for task in pending: task.cancel()"; the block is left
VoiceWake(c) ==
  /\ ep[c] = "bvoice"
  /\ pc[c] = "wait"
  /\ VoiceWaitReturns(c)
  /\ recv_task' = [recv_task EXCEPT ![c] = IF @ = "run" THEN "cancelled" ELSE @]
  /\ send_task' = [send_task EXCEPT ![c] = IF @ = "run" THEN "cancelled" ELSE @]
  /\ pc' = [pc EXCEPT ![c] = "closing"]
  /\ UNCHANGED << active_sessions, ep, sid, exc, is_running, upstream, client_open,
                  inbox, n_client, n_up, up_calls, recv_calls, client_log,
                  seen_disconnect, printed, genai_client, mem0_service,
                  health_sessions, mem_calls, gen_calls, dog_name, dog_id,
                  app_sessions, up_log, mem_ret, prompt_ret, req_log, text_app,
                  server_closed, ignored, check_ret >>


\* ------------------------------------------------ backend/main.py: video
\* what handling one frame raises before any await: json/key/base64 errors
VideoFrameRaises(m) ==
  \/ m.type = "missing"
  \/ /\ m.type \in {"audio", "video_frame"}
     /\ (~m.has_data \/ ~B64Decode(m.data).ok)

\* after a frame is handled the loop goes on to "turn = session.receive()"
VideoAfterForward == "turn"

\* one iteration of the loop up to the upstream read: receive_text, json.loads,
\* the branch on data["type"], send_realtime_input
VideoRecv(c) ==
  /\ ep[c] = "bvideo"
  /\ pc[c] = "recv"
  /\ inbox[c] # <<>>
  /\ inbox' = [inbox EXCEPT ![c] = <<>>]
  /\ LET m == inbox[c][1]
         bytes == B64Decode(m.data).bytes
     IN IF VideoFrameRaises(m) THEN
          /\ exc' = [exc EXCEPT ![c] = "Exception"]
          /\ pc' = [pc EXCEPT ![c] = "closing"]
          /\ UNCHANGED << up_calls, recv_calls >>
        ELSE IF m.type \in {"audio", "video_frame"} THEN
          \E ok \in BOOLEAN :
            /\ up_calls' = [up_calls EXCEPT ![c] =
                 Append(@, IF m.type = "audio" THEN AudioCall(bytes, ok)
                           ELSE MediaChunksCall(bytes, ok))]
            /\ IF ok THEN
                 /\ pc' = [pc EXCEPT ![c] = VideoAfterForward]
                 /\ recv_calls' = [recv_calls EXCEPT ![c] = Append(@, "pending")]
                 /\ UNCHANGED exc
               ELSE
                 /\ exc' = [exc EXCEPT ![c] = "Exception"]
                 /\ pc' = [pc EXCEPT ![c] = "closing"]
                 /\ UNCHANGED recv_calls
        ELSE
          /\ pc' = [pc EXCEPT ![c] = VideoAfterForward]
          /\ recv_calls' = [recv_calls EXCEPT ![c] = Append(@, "pending")]
          /\ UNCHANGED << exc, up_calls >>
  /\ UNCHANGED << active_sessions, ep, sid, recv_task, send_task, is_running, upstream,
                  client_open, n_client, n_up, client_log, seen_disconnect, printed,
                  genai_client, mem0_service, health_sessions, mem_calls, gen_calls,
                  dog_name, dog_id, app_sessions, up_log, mem_ret, prompt_ret, req_log,
                  text_app, server_closed, ignored, check_ret >>

\* receive_text() raises WebSocketDisconnect: the inner except breaks the loop
VideoRecvDisconnect(c) ==
  /\ ep[c] = "bvideo"
  /\ pc[c] = "recv"
  /\ inbox[c] = <<>>
  /\ ~client_open[c]
  /\ seen_disconnect' = [seen_disconnect EXCEPT ![c] = TRUE]
  /\ pc' = [pc EXCEPT ![c] = "closing"]
  /\ UNCHANGED << active_sessions, ep, sid, exc, recv_task, send_task, is_running,
                  upstream, client_open, inbox, n_client, n_up, up_calls, recv_calls,
                  client_log, printed, genai_client, mem0_service, health_sessions,
                  mem_calls, gen_calls, dog_name, dog_id, app_sessions, up_log,
                  mem_ret, prompt_ret, req_log, text_app, server_closed, ignored,
                  check_ret >>

\* "async for response in turn": the pending upstream read returns
VideoTurn(c, ev) ==
  /\ ep[c] = "bvideo"
  /\ pc[c] = "turn"
  /\ n_up[c] < MaxChunks
  /\ n_up' = [n_up EXCEPT ![c] = @ + 1]
  /\ up_log' = [up_log EXCEPT ![c] =
       IF ev.kind = "response" THEN Append(@, ev.parts) ELSE @]
  /\ IF ev.kind = "response" THEN
       LET datas == MapSeq(LAMBDA p : B64Encode(p.data), InlineParts(ev.parts))
           raised == datas # <<>> /\ ~client_open[c]
       IN /\ client_log' = [client_log EXCEPT ![c] = @ \o SendAll(c, "audio", datas)]
          /\ IF raised THEN
               \* WebSocketDisconnect: inner except, break; others: outer except
               /\ \E e \in SendErrors :
                    /\ exc' = [exc EXCEPT ![c] =
                         IF e = "WebSocketDisconnect" THEN "none" ELSE e]
                    /\ seen_disconnect' = [seen_disconnect EXCEPT ![c] =
                         @ \/ e = "WebSocketDisconnect"]
               /\ pc' = [pc EXCEPT ![c] = "closing"]
             ELSE UNCHANGED << exc, pc, seen_disconnect >>
          /\ UNCHANGED recv_calls
     ELSE IF ev.kind = "turn_complete" THEN
       /\ recv_calls' = [recv_calls EXCEPT ![c] = SetLast(@, "complete")]
       /\ pc' = [pc EXCEPT ![c] = "recv"]
       /\ UNCHANGED << client_log, seen_disconnect, exc >>
     ELSE
       /\ recv_calls' = [recv_calls EXCEPT ![c] = SetLast(@, "failed")]
       /\ exc' = [exc EXCEPT ![c] = "Exception"]
       /\ pc' = [pc EXCEPT ![c] = "closing"]
       /\ UNCHANGED << client_log, seen_disconnect >>
  /\ UNCHANGED << active_sessions, ep, sid, recv_task, send_task, is_running, upstream,
                  client_open, inbox, n_client, up_calls, printed, genai_client,
                  mem0_service, health_sessions, mem_calls, gen_calls, dog_name,
                  dog_id, app_sessions, mem_ret, prompt_ret, req_log, text_app,
                  server_closed, ignored, check_ret >>

\* ------------------------------------------------ live_ws.py: live_session
\* the client messages of one response, in the order send_to_flutter sends
\* them: per part the audio (base64) and then the transcript
\* all the transcripts of a response sent before its audio
LiveItemsTextFirst(parts) ==
  [i \in 1..Len(SelectSeq(parts, LAMBDA p : p.text)) |->
     [type |-> "transcript", data |-> <<>>]]
  \o [i \in 1..Len(SelectSeq(parts, LAMBDA p : p.inline)) |->
        [type |-> "audio", data |-> B64Encode(SelectSeq(parts, LAMBDA p : p.inline)[i].data)]]

RECURSIVE LiveItems(_)
LiveItems(parts) ==
  IF parts = <<>> THEN <<>>
  ELSE LET p == Head(parts)
       IN (IF p.inline THEN << [type |-> "audio", data |-> B64Encode(p.data)] >>
           ELSE <<>>)
          \o (IF p.text THEN << [type |-> "transcript", data |-> <<>>] >> ELSE <<>>)
          \o LiveItems(Tail(parts))

RECURSIVE SendEach(_, _)
SendEach(c, items) ==
  IF items = <<>> THEN <<>>
  ELSE IF ~client_open[c] THEN << Sent(c, Head(items).type, Head(items).data) >>
  ELSE << Sent(c, Head(items).type, Head(items).data) >> \o SendEach(c, Tail(items))

\* the connected message is sent whether or not a client is configured
LiveHelloGreets(c) ==
  /\ ep[c] = LiveEp
  /\ pc[c] = "accepted"
  /\ dog_name' = [dog_name EXCEPT ![c] = "your dog"]
  /\ dog_id' = [dog_id EXCEPT ![c] = "default"]
  /\ client_log' = [client_log EXCEPT ![c] = Append(@, Sent(c, "connected", <<>>))]
  /\ is_running' = [is_running EXCEPT ![c] = TRUE]
  /\ pc' = [pc EXCEPT ![c] = "connecting"]
  /\ UNCHANGED << active_sessions, ep, sid, exc, recv_task, send_task, upstream,
                  client_open, inbox, n_client, n_up, up_calls, recv_calls,
                  seen_disconnect, printed, genai_client, mem0_service,
                  health_sessions, mem_calls, gen_calls, app_sessions, up_log, mem_ret,
                  prompt_ret, req_log, text_app, server_closed, ignored, check_ret >>

\* "if not client": one error message, close, return; else the connected
\* message is sent
LiveHello(c) ==
  /\ ep[c] = LiveEp
  /\ pc[c] = "accepted"
  /\ dog_name' = [dog_name EXCEPT ![c] = IF genai_client THEN "your dog" ELSE @]
  /\ dog_id' = [dog_id EXCEPT ![c] = IF genai_client THEN "default" ELSE @]
  /\ IF ~genai_client THEN
       /\ client_log' = [client_log EXCEPT ![c] = Append(@, Sent(c, "error", <<>>))]
       /\ \E e \in SendErrors :
            /\ exc' = [exc EXCEPT ![c] = IF client_open[c] THEN @ ELSE e]
            /\ seen_disconnect' = [seen_disconnect EXCEPT ![c] =
                 @ \/ (~client_open[c] /\ e = "WebSocketDisconnect")]
       \* await websocket.close(), reached when the send did not raise
       /\ server_closed' = [server_closed EXCEPT ![c] = client_open[c]]
       /\ pc' = [pc EXCEPT ![c] = "done"]
       /\ UNCHANGED << is_running, printed >>
     ELSE IF client_open[c] THEN
       /\ client_log' = [client_log EXCEPT ![c] = Append(@, Sent(c, "connected", <<>>))]
       /\ is_running' = [is_running EXCEPT ![c] = TRUE]
       /\ pc' = [pc EXCEPT ![c] = "connecting"]
       /\ UNCHANGED << exc, printed, seen_disconnect, server_closed >>
     ELSE
       \E e \in SendErrors :
         /\ UNCHANGED server_closed
         /\ exc' = [exc EXCEPT ![c] = e]
         /\ seen_disconnect' = [seen_disconnect EXCEPT ![c] =
              @ \/ e = "WebSocketDisconnect"]
         /\ is_running' = [is_running EXCEPT ![c] = TRUE]
         /\ pc' = [pc EXCEPT ![c] = "done"]
         /\ IF e = "WebSocketDisconnect" THEN
              \* except WebSocketDisconnect: print("Live session disconnected")
              /\ client_log' = [client_log EXCEPT ![c] =
                   Append(@, Sent(c, "connected", <<>>))]
              /\ UNCHANGED printed
            ELSE
              \* except Exception: print, then try: send error / except: pass
              /\ client_log' = [client_log EXCEPT ![c] =
                   @ \o << Sent(c, "connected", <<>>),
                           [type |-> "error", data |-> <<>>, ok |-> FALSE,
                            after_disconnect |-> seen_disconnect[c]] >>]
              /\ printed' = [printed EXCEPT ![c] = @ \cup {"Live session error"}]
  /\ UNCHANGED << active_sessions, ep, sid, recv_task, send_task, upstream,
                  client_open, inbox, n_client, n_up, up_calls, recv_calls,
                  genai_client, mem0_service, health_sessions, mem_calls, gen_calls,
                  app_sessions, up_log, mem_ret, prompt_ret, req_log, text_app,
                  ignored, check_ret >>

\* client.aio.live.connect(...) is entered and the TaskGroup starts both
\* tasks; a failure goes to except Exception, which tries to send the error
LiveConnect(c) ==
  /\ ep[c] = LiveEp
  /\ pc[c] = "connecting"
  /\ \E ok \in BOOLEAN :
       IF ok THEN
         /\ upstream' = [upstream EXCEPT ![c] = "open"]
         /\ recv_task' = [recv_task EXCEPT ![c] = "run"]
         /\ send_task' = [send_task EXCEPT ![c] = "run"]
         /\ recv_calls' = [recv_calls EXCEPT ![c] = Append(@, "pending")]
         /\ pc' = [pc EXCEPT ![c] = "tg"]
         /\ UNCHANGED << exc, printed, client_log, seen_disconnect >>
       ELSE
         /\ exc' = [exc EXCEPT ![c] = "Exception"]
         /\ printed' = [printed EXCEPT ![c] = @ \cup {"Live session error"}]
         /\ client_log' = [client_log EXCEPT ![c] = Append(@, Sent(c, "error", <<>>))]
         /\ \E e \in SendErrors :
              seen_disconnect' = [seen_disconnect EXCEPT ![c] =
                @ \/ (~client_open[c] /\ e = "WebSocketDisconnect")]
         /\ pc' = [pc EXCEPT ![c] = "done"]
         /\ UNCHANGED << upstream, recv_task, send_task, recv_calls >>
  /\ UNCHANGED << active_sessions, ep, sid, is_running, client_open, inbox, n_client,
                  n_up, up_calls, genai_client, mem0_service, health_sessions,
                  mem_calls, gen_calls, dog_name, dog_id, app_sessions, up_log,
                  mem_ret, prompt_ret, req_log, text_app, server_closed, ignored,
                  check_ret >>

\* a video_frame is forwarded like a video
LiveMediaTypesWithFrame == {"audio", "video", "video_frame"}

\* the values of msg_type whose branch forwards the data upstream
LiveMediaTypes == {"audio", "video"}

\* what handling one frame raises before any await: KeyError, binascii.Error
LiveFrameRaises(m) ==
  /\ m.type \in LiveMediaTypes
  /\ (~m.has_data \/ ~B64Decode(m.data).ok)

\* "except Exception as e: print(...)": the while loop goes on
LiveRecvAfterError == "run"

\* a config frame leaves dog_id as it is
ConfigDogIdKept(m, old) == old

\* dog_name = data.get("dog_name", "your dog")
ConfigDogName(m, old) == IF "dog_name" \in DOMAIN m THEN m.dog_name ELSE "your dog"

\* dog_id = data.get("dog_id", "default")
ConfigDogId(m, old) == IF "dog_id" \in DOMAIN m THEN m.dog_id ELSE "default"

\* the branch msg_type == "config"
LiveConfig(c, m) ==
  /\ dog_name' = [dog_name EXCEPT ![c] =
       IF m.type = "config" THEN ConfigDogName(m, @) ELSE @]
  /\ dog_id' = [dog_id EXCEPT ![c] =
       IF m.type = "config" THEN ConfigDogId(m, @) ELSE @]

\* a stop message leaves the flag set
RunningAfterStopKept == TRUE

\* elif msg_type == "stop": is_running = False
RunningAfterStop == FALSE

\* the values of msg_type that have a branch
LiveTypes == {"config", "audio", "video", "stop"}

\* receive_from_flutter: one receive_json() and the branch on msg_type
LiveRecv(c) ==
  /\ ep[c] = LiveEp
  /\ recv_task[c] = "run"
  /\ is_running[c]
  /\ inbox[c] # <<>>
  /\ inbox' = [inbox EXCEPT ![c] = <<>>]
  /\ LiveConfig(c, inbox[c][1])
  /\ ignored' = [ignored EXCEPT ![c] =
       IF inbox[c][1].type \in LiveTypes THEN @ ELSE @ + 1]
  /\ LET m == inbox[c][1]
         bytes == B64Decode(m.data).bytes
     IN IF LiveFrameRaises(m) THEN
          /\ printed' = [printed EXCEPT ![c] = @ \cup {"Receive error"}]
          /\ recv_task' = [recv_task EXCEPT ![c] = LiveRecvAfterError]
          /\ UNCHANGED << up_calls, is_running >>
        ELSE IF m.type \in LiveMediaTypes THEN
          \E ok \in BOOLEAN :
            /\ up_calls' = [up_calls EXCEPT ![c] =
                 Append(@, IF m.type = "audio" THEN AudioCall(bytes, ok)
                           ELSE VideoCall(bytes, ok))]
            /\ printed' = [printed EXCEPT ![c] =
                 IF ok THEN @ ELSE @ \cup {"Receive error"}]
            /\ recv_task' = [recv_task EXCEPT ![c] =
                 IF ok THEN "run" ELSE LiveRecvAfterError]
            /\ UNCHANGED is_running
        ELSE IF m.type = "stop" THEN
          /\ is_running' = [is_running EXCEPT ![c] = RunningAfterStop]
          /\ recv_task' = [recv_task EXCEPT ![c] = "done"]
          /\ UNCHANGED << up_calls, printed >>
        ELSE
          \* config sets dog_name and dog_id; any other type matches no branch
          UNCHANGED << up_calls, printed, recv_task, is_running >>
  /\ UNCHANGED << active_sessions, ep, sid, pc, exc, send_task, upstream, client_open,
                  n_client, n_up, recv_calls, client_log, seen_disconnect,
                  genai_client, mem0_service, health_sessions, mem_calls, gen_calls,
                  app_sessions, up_log, mem_ret, prompt_ret, req_log, text_app,
                  server_closed, check_ret >>

\* receive_json() raises WebSocketDisconnect: is_running = False; break
LiveRecvDisconnect(c) ==
  /\ ep[c] = LiveEp
  /\ recv_task[c] = "run"
  /\ is_running[c]
  /\ inbox[c] = <<>>
  /\ ~client_open[c]
  /\ is_running' = [is_running EXCEPT ![c] = FALSE]
  /\ recv_task' = [recv_task EXCEPT ![c] = "done"]
  /\ seen_disconnect' = [seen_disconnect EXCEPT ![c] = TRUE]
  /\ UNCHANGED << active_sessions, ep, sid, pc, exc, send_task, upstream, client_open,
                  inbox, n_client, n_up, up_calls, recv_calls, client_log, printed,
                  genai_client, mem0_service, health_sessions, mem_calls, gen_calls,
                  dog_name, dog_id, app_sessions, up_log, mem_ret, prompt_ret, req_log,
                  text_app, server_closed, ignored, check_ret >>

\* if "closed" in str(e).lower(): break
LiveSendBreaks(closed) == closed

\* send_to_flutter is back at "while is_running": it calls live.receive()
\* again, or the task returns
LiveSendLoop(c, calls) ==
  IF is_running[c]
    THEN /\ recv_calls' = [recv_calls EXCEPT ![c] = Append(calls, "pending")]
         /\ UNCHANGED send_task
    ELSE /\ recv_calls' = [recv_calls EXCEPT ![c] = calls]
         /\ send_task' = [send_task EXCEPT ![c] = "done"]

\* send_to_flutter: the pending upstream read returns
LiveSend(c, ev) ==
  /\ ep[c] = LiveEp
  /\ send_task[c] = "run"
  /\ n_up[c] < MaxChunks
  /\ n_up' = [n_up EXCEPT ![c] = @ + 1]
  /\ up_log' = [up_log EXCEPT ![c] =
       IF ev.kind = "response" THEN Append(@, ev.parts) ELSE @]
  /\ IF ev.kind = "response" THEN
       IF ~is_running[c] THEN
         \* "if not is_running: break", and the while loop ends
         /\ send_task' = [send_task EXCEPT ![c] = "done"]
         /\ UNCHANGED << client_log, seen_disconnect, printed, recv_calls >>
       ELSE
         LET sends == SendEach(c, LiveItems(ev.parts))
             raised == sends # <<>> /\ ~client_open[c]
         IN /\ client_log' = [client_log EXCEPT ![c] = @ \o sends]
            /\ \E e \in SendErrors :
                 seen_disconnect' = [seen_disconnect EXCEPT ![c] =
                   @ \/ (raised /\ e = "WebSocketDisconnect")]
            /\ IF raised THEN
                 /\ printed' = [printed EXCEPT ![c] = @ \cup {"Send error"}]
                 /\ \E closed \in BOOLEAN :
                      IF LiveSendBreaks(closed)
                        THEN /\ send_task' = [send_task EXCEPT ![c] = "done"]
                             /\ UNCHANGED recv_calls
                        ELSE LiveSendLoop(c, SetLast(recv_calls[c], "abandoned"))
               ELSE UNCHANGED << printed, send_task, recv_calls >>
     ELSE IF ev.kind = "turn_complete" THEN
       /\ LiveSendLoop(c, SetLast(recv_calls[c], "complete"))
       /\ UNCHANGED << client_log, seen_disconnect, printed >>
     ELSE
       \* except Exception: print("Send error"), break only on "closed"
       /\ printed' = [printed EXCEPT ![c] = @ \cup {"Send error"}]
       /\ IF LiveSendBreaks(ev.closed)
            THEN /\ send_task' = [send_task EXCEPT ![c] = "done"]
                 /\ recv_calls' = [recv_calls EXCEPT ![c] = SetLast(@, "failed")]
            ELSE LiveSendLoop(c, SetLast(recv_calls[c], "failed"))
       /\ UNCHANGED << client_log, seen_disconnect >>
  /\ UNCHANGED << active_sessions, ep, sid, pc, exc, recv_task, is_running, upstream,
                  client_open, inbox, n_client, up_calls, genai_client, mem0_service,
                  health_sessions, mem_calls, gen_calls, dog_name, dog_id,
                  app_sessions, mem_ret, prompt_ret, req_log, text_app, server_closed,
                  ignored, check_ret >>

\* "async with asyncio.TaskGroup()": the block is left when both tasks have
\* ended; neither task lets an Exception out, so no sibling is cancelled
LiveGroupDone(c) == recv_task[c] = "done" /\ send_task[c] = "done"

LiveJoin(c) ==
  /\ ep[c] = LiveEp
  /\ pc[c] = "tg"
  /\ LiveGroupDone(c)
  /\ recv_task' = [recv_task EXCEPT ![c] = IF @ = "run" THEN "cancelled" ELSE @]
  /\ send_task' = [send_task EXCEPT ![c] = IF @ = "run" THEN "cancelled" ELSE @]
  /\ pc' = [pc EXCEPT ![c] = "closing"]
  /\ UNCHANGED << active_sessions, ep, sid, exc, is_running, upstream, client_open,
                  inbox, n_client, n_up, up_calls, recv_calls, client_log,
                  seen_disconnect, printed, genai_client, mem0_service,
                  health_sessions, mem_calls, gen_calls, dog_name, dog_id,
                  app_sessions, up_log, mem_ret, prompt_ret, req_log, text_app,
                  server_closed, ignored, check_ret >>

\* the "async with client.aio.live.connect" block is left
LiveExit(c) ==
  /\ ep[c] = LiveEp
  /\ pc[c] = "closing"
  /\ upstream' = [upstream EXCEPT ![c] = "closed"]
  /\ pc' = [pc EXCEPT ![c] = "done"]
  /\ UNCHANGED << active_sessions, ep, sid, exc, recv_task, send_task, is_running,
                  client_open, inbox, n_client, n_up, up_calls, recv_calls, client_log,
                  seen_disconnect, printed, genai_client, mem0_service,
                  health_sessions, mem_calls, gen_calls, dog_name, dog_id,
                  app_sessions, up_log, mem_ret, prompt_ret, req_log, text_app,
                  server_closed, ignored, check_ret >>

\* ------------------------------ services/mem0_health_service.py, the methods
\* what self.client.search does: it raises, returns None, or returns a list
\* of memories; a memory is a dict that may lack the "memory" key
Memories == {[memory |-> "limps"], [memory |-> ""], [id |-> "m1"]}

RECURSIVE SeqsUpTo(_, _)
SeqsUpTo(S, n) ==
  IF n = 0 THEN {<<>>}
  ELSE LET shorter == SeqsUpTo(S, n - 1)
       IN shorter \cup {Append(q, x) : q \in shorter, x \in S}

SearchOutcomes ==
  {[kind |-> "raise", results |-> <<>>], [kind |-> "none", results |-> <<>>]}
    \cup {[kind |-> "list", results |-> r] : r \in SeqsUpTo(Memories, MaxResults)}

Queries == {"", "limping"}

\* mem.get("memory", "")
MemGet(mem) == IF "memory" \in DOMAIN mem THEN mem.memory ELSE ""

\* the lines appended to context_parts, one per memory with a text
RECURSIVE ContextLines(_)
ContextLines(results) ==
  IF results = <<>> THEN <<>>
  ELSE (IF MemGet(Head(results)) # "" THEN << <<"- ", MemGet(Head(results))>> >>
        ELSE <<>>) \o ContextLines(Tail(results))

\* what a method hands back to its caller: the backend calls it issued, the
\* line it printed, whether an exception left the method, and the value
Returned(calls, line, value) ==
  [calls |-> calls, line |-> line, raised |-> FALSE, value |-> value]

Propagated(calls) ==
  [calls |-> calls, line |-> "", raised |-> TRUE, value |-> <<>>]

SearchCall(dog, query, limit) ==
  [op |-> "search", user_id |-> dog, query |-> query, limit |-> limit]

\* every memory is stored under one shared identifier
AddCallShared(dog, role, type, content) ==
  [op |-> "add", user_id |-> "default", role |-> role, type |-> type, content |-> content]

\* content: the text of the one message handed to the backend
AddCall(dog, role, type, content) ==
  [op |-> "add", user_id |-> dog, role |-> role, type |-> type, content |-> content]

\* "\n".join(lines); a text is a sequence of symbols and "" the empty one
RECURSIVE JoinLines(_)
JoinLines(lines) ==
  IF lines = <<>> THEN <<>>
  ELSE IF Len(lines) = 1 THEN lines[1]
  ELSE lines[1] \o << "\n" >> \o JoinLines(Tail(lines))

get_health_context(client, dog, query, res) ==
  IF ~client THEN Returned(<<>>, "", <<>>)
  ELSE LET calls == << SearchCall(dog, query, 5) >>
       IN IF res.kind = "raise" THEN Returned(calls, "Mem0 search error", <<>>)
          ELSE IF res.kind = "none" \/ res.results = <<>>
            THEN Returned(calls, "", <<>>)
          ELSE Returned(calls, "",
                        JoinLines(<< <<"Previous Health Context:">> >>
                                    \o ContextLines(res.results)))

get_medications_propagates(client, dog, res) ==
  IF ~client THEN Returned(<<>>, "", <<>>)
  ELSE LET calls == << SearchCall(dog, "current medications prescriptions", 10) >>
       IN IF res.kind = "raise" THEN Propagated(calls)
          ELSE Returned(calls, "", res.results)

get_medications(client, dog, res) ==
  IF ~client THEN Returned(<<>>, "", <<>>)
  ELSE LET calls == << SearchCall(dog, "current medications prescriptions", 10) >>
       IN IF res.kind = "raise"
            THEN Returned(calls, "Mem0 get medications error", <<>>)
          \* results or []
          ELSE Returned(calls, "", IF res.kind = "none" THEN <<>> ELSE res.results)

get_vaccinations(client, dog, res) ==
  IF ~client THEN Returned(<<>>, "", <<>>)
  ELSE LET calls == << SearchCall(dog, "vaccinations vaccines shots", 10) >>
       IN IF res.kind = "raise"
            THEN Returned(calls, "Mem0 get vaccinations error", <<>>)
          ELSE Returned(calls, "", IF res.kind = "none" THEN <<>> ELSE res.results)

\* args_ok: building mem_metadata succeeds (metadata is None or a mapping)
add_consultation_memory(client, dog, message, role, args_ok, add_ok) ==
  IF ~client THEN Returned(<<>>, "", FALSE)
  ELSE IF ~args_ok THEN Returned(<<>>, "Mem0 add error", FALSE)
  ELSE IF ~add_ok
    THEN Returned(<< AddCall(dog, role, "consultation", message) >>, "Mem0 add error", FALSE)
  ELSE Returned(<< AddCall(dog, role, "consultation", message) >>, "", TRUE)

\* args_ok: building the content succeeds (findings is a dict of strings)
store_consultation_findings(client, dog, args_ok, add_ok) ==
  IF ~client THEN Returned(<<>>, "", FALSE)
  ELSE IF ~args_ok THEN Returned(<<>>, "Mem0 findings error", FALSE)
  ELSE IF ~add_ok
    THEN Returned(<< AddCall(dog, "assistant", "consultation_summary", << "Consultation Summary: " >>) >>,
                  "Mem0 findings error", FALSE)
  ELSE Returned(<< AddCall(dog, "assistant", "consultation_summary", << "Consultation Summary: " >>) >>, "", TRUE)

add_medication_always_true(client, dog, medication, add_ok) ==
  IF ~client THEN Returned(<<>>, "", FALSE)
  ELSE Returned(<< AddCall(dog, "system", "medication", << "Medication prescribed: " >> \o medication) >>, "", TRUE)

add_medication(client, dog, medication, add_ok) ==
  IF ~client THEN Returned(<<>>, "", FALSE)
  ELSE IF ~add_ok
    THEN Returned(<< AddCall(dog, "system", "medication", << "Medication prescribed: " >> \o medication) >>,
                  "Mem0 medication error", FALSE)
  ELSE Returned(<< AddCall(dog, "system", "medication", << "Medication prescribed: " >> \o medication) >>, "", TRUE)

add_vaccination(client, dog, vaccine, add_ok) ==
  IF ~client THEN Returned(<<>>, "", FALSE)
  ELSE IF ~add_ok
    THEN Returned(<< AddCall(dog, "system", "vaccination", << "Vaccination: " >> \o vaccine) >>,
                  "Mem0 vaccination error", FALSE)
  ELSE Returned(<< AddCall(dog, "system", "vaccination", << "Vaccination: " >> \o vaccine) >>, "", TRUE)

RecallFns == {"get_health_context", "get_medications", "get_vaccinations"}

RememberFns == {"add_consultation_memory", "store_consultation_findings",
                "add_medication", "add_vaccination"}

\* self.client is not None
HasClient == mem0_service = "ok"

\* a caller awaits one of the recall methods; the backend answers with res
Recall(fn, dog, query, res) ==
  /\ mem0_service \in {"no_client", "ok"}
  /\ mem_ret' =
       [fn |-> fn, dog |-> dog, client |-> HasClient, backend |-> res.kind,
        ret |-> IF fn = "get_health_context"
                  THEN get_health_context(HasClient, dog, query, res)
                ELSE IF fn = "get_medications"
                  THEN get_medications(HasClient, dog, res)
                ELSE get_vaccinations(HasClient, dog, res)]
  /\ UNCHANGED << active_sessions, ep, sid, pc, exc, recv_task, send_task, is_running,
                  upstream, client_open, inbox, n_client, n_up, up_calls, recv_calls,
                  client_log, seen_disconnect, printed, genai_client, mem0_service,
                  health_sessions, mem_calls, gen_calls, dog_name, dog_id,
                  app_sessions, up_log, prompt_ret, req_log, text_app, server_closed,
                  ignored, check_ret >>

\* a caller awaits one of the remember methods; the backend add returns
\* (add_ok) or raises
Remember(fn, dog, role, args_ok, add_ok) ==
  /\ mem0_service \in {"no_client", "ok"}
  /\ mem_ret' =
       [fn |-> fn, dog |-> dog, client |-> HasClient, args_ok |-> args_ok,
        add_ok |-> add_ok,
        ret |-> IF fn = "add_consultation_memory"
                  THEN add_consultation_memory(HasClient, dog, << "limping" >>, role, args_ok,
                                               add_ok)
                ELSE IF fn = "store_consultation_findings"
                  THEN store_consultation_findings(HasClient, dog, args_ok, add_ok)
                ELSE IF fn = "add_medication"
                  THEN add_medication(HasClient, dog, << "aspirin" >>, add_ok)
                ELSE add_vaccination(HasClient, dog, << "rabies" >>, add_ok)]
  /\ UNCHANGED << active_sessions, ep, sid, pc, exc, recv_task, send_task, is_running,
                  upstream, client_open, inbox, n_client, n_up, up_calls, recv_calls,
                  client_log, seen_disconnect, printed, genai_client, mem0_service,
                  health_sessions, mem_calls, gen_calls, dog_name, dog_id,
                  app_sessions, up_log, prompt_ret, req_log, text_app, server_closed,
                  ignored, check_ret >>

\* --------------------------------------------------------- prompt builders
\* a text is a sequence of symbols; the literal pieces of a template are one
\* symbol each, the texts a caller passes are sequences over Symbols
Symbols == {"a", "{"}
Texts == SeqsUpTo(Symbols, MaxText)

\* t occurs in s as a contiguous run
Contains(s, t) ==
  \E i \in 0..(Len(s) - Len(t)) : SubSeq(s, i + 1, i + Len(t)) = t

\* ", ".join(items)
RECURSIVE JoinComma(_)
JoinComma(items) ==
  IF items = <<>> THEN <<>>
  ELSE IF Len(items) = 1 THEN items[1]
  ELSE items[1] \o << ", " >> \o JoinComma(Tail(items))

\* str(list) inside an f-string: the repr of a list of strings
RECURSIVE ReprItems(_)
ReprItems(items) ==
  IF items = <<>> THEN <<>>
  ELSE IF Len(items) = 1 THEN << "'" >> \o items[1] \o << "'" >>
  ELSE << "'" >> \o items[1] \o << "'", ", " >> \o ReprItems(Tail(items))

ReprList(items) == << "[" >> \o ReprItems(items) \o << "]" >>

\* services/prompt_builder.py: mode_instruction = {...}.get(mode, "")
ModeInstruction(mode) ==
  IF mode = "text" THEN << "Respond in plain text, 2-3 sentences max." >>
  ELSE IF mode = "voice"
    THEN << "Respond conversationally as if speaking. Keep it brief and warm." >>
  ELSE IF mode = "video"
    THEN << "The user may be showing you their pet. Describe what concerns you see if any." >>
  ELSE IF mode = "emergency"
    THEN << "This is an EMERGENCY. Provide immediate first aid steps. Be direct." >>
  ELSE <<>>

\* the user question cut to its first symbol
build_consultation_prompt_cut(name, breed, age, weight, health_context, user_query, mode) ==
  << "You are a caring veterinary AI assistant for PetPal.\n\nDOG PROFILE:\n- Name: " >>
    \o name \o << "\n\nUSER QUESTION: " >>
    \o (IF user_query = <<>> THEN <<>> ELSE << Head(user_query) >>) \o << "\n\nINSTRUCTIONS:\n" >>

build_consultation_prompt(name, breed, age, weight, health_context, user_query, mode) ==
  << "You are a caring veterinary AI assistant for PetPal.\n\nDOG PROFILE:\n- Name: " >>
    \o name \o << "\n- Breed: " >> \o breed \o << "\n- Age: " >> \o age
    \o << "\n- Weight: " >> \o weight \o << "\n\n" >> \o health_context
    \o << "\n\nUSER QUESTION: " >> \o user_query \o << "\n\nINSTRUCTIONS:\n" >>
    \o ModeInstruction(mode)
    \o << "\n- Be warm and friendly\n- Never use markdown formatting\n- If serious, recommend seeing a vet\n- Reference past health issues if relevant\n" >>

\* hf_space/app.py: mode_intro = {...}.get(consultation_type, ""), written
\* without the leading emoji
ModeIntro(consultation_type) ==
  IF consultation_type = "emergency"
    THEN << "EMERGENCY MODE: Be direct and action-oriented. Give first aid steps." >>
  ELSE IF consultation_type = "video"
    THEN << "VIDEO MODE: The user may describe visible symptoms." >>
  ELSE IF consultation_type = "voice" THEN << "VOICE MODE: Respond conversationally." >>
  ELSE IF consultation_type = "text" THEN << "TEXT MODE: Be helpful and concise." >>
  ELSE <<>>

\* the health_context of a request: None, or a dict with lists of allergies
\* and medications (a missing key is an empty list)
NoContext == [given |-> FALSE, allergies |-> <<>>, medications |-> <<>>]
HealthContexts ==
  {NoContext,
   [given |-> TRUE, allergies |-> <<>>, medications |-> <<>>],
   [given |-> TRUE, allergies |-> << <<"pollen">> >>,
    medications |-> << <<"aspirin">>, <<"insulin">> >>]}

\* "if health_context:" is false for None and for an empty dict
Truthy(health_context) ==
  health_context.given
    /\ (health_context.allergies # <<>> \/ health_context.medications # <<>>)

\* hf_space/app.py build_health_prompt: health_info
HealthInfo(health_context) ==
  IF ~health_context.given THEN <<>>
  ELSE (IF health_context.allergies # <<>>
          THEN << "Allergies: " >> \o JoinComma(health_context.allergies) \o << "\n" >>
          ELSE <<>>)
       \o (IF health_context.medications # <<>>
             THEN << "Medications: " >> \o JoinComma(health_context.medications)
                    \o << "\n" >>
             ELSE <<>>)

build_health_prompt(user_message, name, breed, age, health_context, memory_context, consultation_type) ==
  << "You are a friendly AI veterinary assistant.\n\n" >>
    \o ModeIntro(consultation_type) \o << "\n\nDOG: " >> \o name \o << "\n" >>
    \o (IF breed # <<>> THEN << "Breed: " >> \o breed ELSE <<>>)
    \o << "\nAge: " >> \o age \o << "\n" >> \o HealthInfo(health_context) \o << "\n\n" >>
    \o (IF memory_context # <<>> THEN << "PAST CONTEXT: " >> \o memory_context ELSE <<>>)
    \o << "\n\nUSER: " >> \o user_message
    \o << "\n\nRESPONSE RULES:\n- Keep response to 2-3 SHORT sentences\n- Use simple, conversational language\n- NO markdown, NO bullet points, NO headers\n- Be warm and caring but brief\n- If serious, say \"Please see a vet\" at the end\n" >>

\* backend/main.py _build_health_prompt
_build_health_prompt(user_message, name, breed, age, health_context, memory_context) ==
  << "You are a friendly AI veterinary assistant. Be brief and conversational.\n\nDOG: " >>
    \o name \o << " (" >> \o breed \o << ", " >> \o age \o << ")\n\n" >>
    \o (IF Truthy(health_context)
          THEN << "HEALTH INFO: Allergies: " >> \o ReprList(health_context.allergies)
                 \o << ", Medications: " >> \o ReprList(health_context.medications)
          ELSE <<>>)
    \o << "\n\n" >> \o memory_context \o << "\n\nUSER: " >> \o user_message
    \o << "\n\nRULES:\n- 2-3 short sentences maximum\n- No markdown, no bullet points\n- Friendly, conversational tone\n- Say \"see a vet\" if serious\n" >>

PromptFns == {"build_consultation_prompt", "build_health_prompt", "_build_health_prompt"}
Modes == {"text", "voice", "video", "emergency", "triage"}
Breeds == {<<>>, <<"pug">>}
MemoryContexts == {<<>>, <<"Previous Health Context:", "\n", "- ", "limps">>}

\* a caller builds a prompt; the builders keep no state between calls, so one
\* call per behaviour covers them
BuildPrompt(fn, user_message, name, breed, health_context, memory_context, mode) ==
  /\ prompt_ret.fn = "none"
  /\ prompt_ret' =
       [fn |-> fn, user_message |-> user_message, dog_name |-> name,
        prompt |->
          IF fn = "build_consultation_prompt"
            THEN build_consultation_prompt(name, breed, <<"adult">>, <<>>,
                                           memory_context, user_message, mode)
          ELSE IF fn = "build_health_prompt"
            THEN build_health_prompt(user_message, name, breed, <<"adult">>,
                                     health_context, memory_context, mode)
          ELSE _build_health_prompt(user_message, name, breed, <<"adult">>,
                                    health_context, memory_context)]
  /\ UNCHANGED << active_sessions, ep, sid, pc, exc, recv_task, send_task, is_running,
                  upstream, client_open, inbox, n_client, n_up, up_calls, recv_calls,
                  client_log, seen_disconnect, printed, genai_client, mem0_service,
                  health_sessions, mem_calls, gen_calls, dog_name, dog_id,
                  app_sessions, up_log, mem_ret, req_log, text_app, server_closed,
                  ignored, check_ret >>

\* ------------------------------------------- services/mem0_health_service.py
\* get_health_context / get_medications / get_vaccinations: the backend
\* search they issue (none without a client); a raise is caught and printed
MemSearch(user, ok) ==
  IF mem0_service = "ok"
    THEN << [op |-> "search", user_id |-> user, role |-> "", ok |-> ok] >>
    ELSE <<>>

\* add_consultation_memory / add_medication / add_vaccination
MemAdd(user, role, ok) ==
  IF mem0_service = "ok"
    THEN << [op |-> "add", user_id |-> user, role |-> role, ok |-> ok] >>
    ELSE <<>>

MemPrinted(calls) ==
  {IF calls[i].op = "add" THEN "Mem0 add error" ELSE "Mem0 search error" :
     i \in {j \in 1..Len(calls) : ~calls[j].ok}}

\* ------------------------------------------------------ health_ws.py handlers
\* the handler ends: only consultation_websocket has registered, and its
\* "finally" pops the entry
HealthEnd(c) ==
  /\ pc' = [pc EXCEPT ![c] = "done"]
  /\ health_sessions' = IF ep[c] = "consult" THEN health_sessions \ {c}
                        ELSE health_sessions

\* a send_json outside any inner try: a raise ends the handler (caught by
\* "except WebSocketDisconnect" or propagating), else it goes on at next
PlainSend(c, type, next) ==
  /\ client_log' = [client_log EXCEPT ![c] = Append(@, Sent(c, type, <<>>))]
  /\ IF client_open[c] THEN
       /\ pc' = [pc EXCEPT ![c] = next]
       /\ UNCHANGED << exc, seen_disconnect, health_sessions >>
     ELSE
       /\ \E e \in SendErrors :
            /\ exc' = [exc EXCEPT ![c] = e]
            /\ seen_disconnect' = [seen_disconnect EXCEPT ![c] =
                 @ \/ e = "WebSocketDisconnect"]
       /\ HealthEnd(c)

\* consultation_websocket: session_id = uuid4(); active_sessions[session_id] = ...
HealthRegister(c) ==
  /\ ep[c] = "consult"
  /\ pc[c] = "accepted"
  /\ health_sessions' = health_sessions \cup {c}
  /\ pc' = [pc EXCEPT ![c] = "hello"]
  /\ UNCHANGED << active_sessions, ep, sid, exc, recv_task, send_task, is_running,
                  upstream, client_open, inbox, n_client, n_up, up_calls, recv_calls,
                  client_log, seen_disconnect, printed, genai_client, mem0_service,
                  mem_calls, gen_calls, dog_name, dog_id, app_sessions, up_log,
                  mem_ret, prompt_ret, req_log, text_app, server_closed, ignored,
                  check_ret >>

\* await websocket.send_json({"type": "connected", ...})
HealthHello(c) ==
  /\ \/ ep[c] = "consult" /\ pc[c] = "hello"
     \/ ep[c] \in {"presc", "vacc"} /\ pc[c] = "accepted"
  /\ PlainSend(c, "connected", "recv")
  /\ UNCHANGED << active_sessions, ep, sid, recv_task, send_task, is_running, upstream,
                  client_open, inbox, n_client, n_up, up_calls, recv_calls, printed,
                  genai_client, mem0_service, mem_calls, gen_calls, dog_name, dog_id,
                  app_sessions, up_log, mem_ret, prompt_ret, req_log, text_app,
                  server_closed, ignored, check_ret >>

\* receive_json() raises WebSocketDisconnect
HealthDisconnect(c) ==
  /\ ep[c] \in HealthEps
  /\ pc[c] = "recv"
  /\ inbox[c] = <<>>
  /\ ~client_open[c]
  /\ seen_disconnect' = [seen_disconnect EXCEPT ![c] = TRUE]
  /\ exc' = [exc EXCEPT ![c] = "WebSocketDisconnect"]
  /\ HealthEnd(c)
  /\ UNCHANGED << active_sessions, ep, sid, recv_task, send_task, is_running, upstream,
                  client_open, inbox, n_client, n_up, up_calls, recv_calls, client_log,
                  printed, genai_client, mem0_service, mem_calls, gen_calls, dog_name,
                  dog_id, app_sessions, up_log, mem_ret, prompt_ret, req_log, text_app,
                  server_closed, ignored, check_ret >>

\* "except Exception as e: send_json(error)" and the while loop goes on
ConsultAfterGenError == "recv"

\* the handler returns after the error reply
AfterEmptyMessageEnds == "done"

\* "No message provided" is sent, then "continue"
AfterEmptyMessage == "recv"

\* data.get(key, default)
Get(m, key, default) == IF key \in DOMAIN m THEN m[key] ELSE default

\* a string of a request as a text
Text(s) == IF s = "" THEN <<>> ELSE << s >>

\* app.state.mem0_service is set: "if mem0_service:" holds
HasService == mem0_service # "absent"

\* response.text of a generation that returned
AiText == << "reply" >>

NotConfiguredText ==
  << "I'm sorry, the AI service is not configured. Please check the API key." >>

\* what client.search hands to get_health_context, get_medications and
\* get_vaccinations in a handler: one memory, or an exception
SearchReply(ok) ==
  IF ok THEN [kind |-> "list", results |-> << [memory |-> "limps"] >>]
  ELSE [kind |-> "raise", results |-> <<>>]

\* the steps of a handler for one request, as they are logged in req_log: a
\* backend call a service method issued, a prompt built, a generation call, a
\* send on the client socket
MemSteps(ret, ok) ==
  [i \in 1..Len(ret.calls) |-> [kind |-> "mem", call |-> ret.calls[i], ok |-> ok]]

PromptStep(prompt) == [kind |-> "prompt", prompt |-> prompt]

GenStep(prompt, ok) == [kind |-> "generate", prompt |-> prompt, ok |-> ok]

SendStep(type, action, text, open) ==
  [kind |-> "send", type |-> type, action |-> action, text |-> text, ok |-> open]

\* a failed memory call is reported to the client as an error
ConsultStepsMemFatal(m, open, s_ok, u_ok, g_ok, a_ok) ==
  IF Get(m, "message", "") = ""
    THEN << SendStep("error", "", << "No message provided" >>, open) >>
  ELSE IF HasClient /\ ~s_ok
    THEN << SendStep("error", "", << "Mem0 error: " >>, open) >>
  ELSE << PromptStep(<< Get(m, "message", "") >>) >>
       \o (IF genai_client THEN << GenStep(<< Get(m, "message", "") >>, g_ok) >> ELSE <<>>)
       \o << SendStep(IF genai_client /\ ~g_ok THEN "error" ELSE "response", "",
                      AiText, open) >>

\* a request in mode "emergency" is answered locally
ConsultStepsRouted(m, open, s_ok, u_ok, g_ok, a_ok) ==
  IF Get(m, "message", "") = ""
    THEN << SendStep("error", "", << "No message provided" >>, open) >>
  ELSE IF Get(m, "mode", "text") = "emergency"
    THEN << SendStep("response", "", << "Call your vet now" >>, open) >>
  ELSE << PromptStep(<<>>), SendStep("response", "", AiText, open) >>

\* the user message is stored before memory is searched
ConsultStepsStoreFirst(m, open, s_ok, u_ok, g_ok, a_ok) ==
  LET mode == Get(m, "mode", "text")
      message == Get(m, "message", "")
      dog == Get(m, "dog_id", "default")
      search == get_health_context(HasClient, dog, message, SearchReply(s_ok))
      add_user ==
        add_consultation_memory(HasClient, dog, Text(message), "user", TRUE, u_ok)
      prompt ==
        build_consultation_prompt(Text(Get(m, "dog_name", "Your dog")),
                                  Text(Get(m, "breed", "")),
                                  Text(Get(m, "age", "adult")),
                                  Text(Get(m, "weight", "")),
                                  IF HasService THEN search.value ELSE <<>>,
                                  Text(message), mode)
      ai_text == IF genai_client THEN AiText ELSE NotConfiguredText
      add_ai ==
        add_consultation_memory(HasClient, dog, ai_text, "assistant", TRUE, a_ok)
  IN IF message = ""
       THEN << SendStep("error", "", << "No message provided" >>, open) >>
     ELSE (IF HasService THEN MemSteps(add_user, u_ok) \o MemSteps(search, s_ok)
           ELSE <<>>)
          \o << PromptStep(prompt) >>
          \o (IF genai_client THEN << GenStep(prompt, g_ok) >> ELSE <<>>)
          \o (IF genai_client /\ ~g_ok
                THEN << SendStep("error", "", << "AI error: " >>, open) >>
              ELSE (IF HasService THEN MemSteps(add_ai, a_ok) ELSE <<>>)
                   \o << SendStep("response", "", ai_text, open) >>
                   \* the failed send is caught by "except Exception"
                   \o (IF open THEN <<>>
                       ELSE << SendStep("error", "", << "AI error: " >>, open) >>))

\* without a generation client the request is answered with an error and
\* nothing is stored for the assistant
ConsultStepsNeedsClient(m, open, s_ok, u_ok, g_ok, a_ok) ==
  LET mode == Get(m, "mode", "text")
      message == Get(m, "message", "")
      dog == Get(m, "dog_id", "default")
      search == get_health_context(HasClient, dog, message, SearchReply(s_ok))
      add_user ==
        add_consultation_memory(HasClient, dog, Text(message), "user", TRUE, u_ok)
      prompt ==
        build_consultation_prompt(Text(Get(m, "dog_name", "Your dog")),
                                  Text(Get(m, "breed", "")),
                                  Text(Get(m, "age", "adult")),
                                  Text(Get(m, "weight", "")),
                                  IF HasService THEN search.value ELSE <<>>,
                                  Text(message), mode)
      ai_text == IF genai_client THEN AiText ELSE NotConfiguredText
      add_ai ==
        add_consultation_memory(HasClient, dog, ai_text, "assistant", TRUE, a_ok)
  IN IF message = ""
       THEN << SendStep("error", "", << "No message provided" >>, open) >>
     ELSE (IF HasService THEN MemSteps(search, s_ok) \o MemSteps(add_user, u_ok)
           ELSE <<>>)
          \o << PromptStep(prompt) >>
          \o (IF genai_client THEN << GenStep(prompt, g_ok) >> ELSE <<>>)
          \o (IF ~genai_client \/ ~g_ok
                THEN << SendStep("error", "", << "AI error: " >>, open) >>
              ELSE (IF HasService THEN MemSteps(add_ai, a_ok) ELSE <<>>)
                   \o << SendStep("response", "", ai_text, open) >>
                   \* the failed send is caught by "except Exception"
                   \o (IF open THEN <<>>
                       ELSE << SendStep("error", "", << "AI error: " >>, open) >>))

\* consultation_websocket: the steps for one request
ConsultSteps(m, open, s_ok, u_ok, g_ok, a_ok) ==
  LET mode == Get(m, "mode", "text")
      message == Get(m, "message", "")
      dog == Get(m, "dog_id", "default")
      search == get_health_context(HasClient, dog, message, SearchReply(s_ok))
      add_user ==
        add_consultation_memory(HasClient, dog, Text(message), "user", TRUE, u_ok)
      prompt ==
        build_consultation_prompt(Text(Get(m, "dog_name", "Your dog")),
                                  Text(Get(m, "breed", "")),
                                  Text(Get(m, "age", "adult")),
                                  Text(Get(m, "weight", "")),
                                  IF HasService THEN search.value ELSE <<>>,
                                  Text(message), mode)
      ai_text == IF genai_client THEN AiText ELSE NotConfiguredText
      add_ai ==
        add_consultation_memory(HasClient, dog, ai_text, "assistant", TRUE, a_ok)
  IN IF message = ""
       THEN << SendStep("error", "", << "No message provided" >>, open) >>
     ELSE (IF HasService THEN MemSteps(search, s_ok) \o MemSteps(add_user, u_ok)
           ELSE <<>>)
          \o << PromptStep(prompt) >>
          \o (IF genai_client THEN << GenStep(prompt, g_ok) >> ELSE <<>>)
          \o (IF genai_client /\ ~g_ok
                THEN << SendStep("error", "", << "AI error: " >>, open) >>
              ELSE (IF HasService THEN MemSteps(add_ai, a_ok) ELSE <<>>)
                   \o << SendStep("response", "", ai_text, open) >>
                   \* the failed send is caught by "except Exception"
                   \o (IF open THEN <<>>
                       ELSE << SendStep("error", "", << "AI error: " >>, open) >>))

\* consultation_websocket: one request, from receive_json to the reply; the
\* memory coroutines and generate_content never suspend
ConsultRecv(c) ==
  /\ ep[c] = "consult"
  /\ pc[c] = "recv"
  /\ inbox[c] # <<>>
  /\ inbox' = [inbox EXCEPT ![c] = <<>>]
  /\ LET m == inbox[c][1]
         dog == Get(m, "dog_id", "default")
     IN IF Get(m, "message", "") = "" THEN
          \* "No message provided", continue
          /\ PlainSend(c, "error", AfterEmptyMessage)
          /\ req_log' = [req_log EXCEPT ![c] = Append(@,
               [m |-> m,
                steps |-> ConsultSteps(m, client_open[c], TRUE, TRUE, TRUE, TRUE)])]
          /\ UNCHANGED << mem_calls, gen_calls, printed >>
        ELSE
          \E s_ok, u_ok, g_ok, a_ok \in BOOLEAN :
            LET before == MemSearch(dog, s_ok) \o MemAdd(dog, "user", u_ok)
                raised == genai_client /\ ~g_ok
                after == IF raised THEN <<>> ELSE MemAdd(dog, "assistant", a_ok)
            IN /\ req_log' = [req_log EXCEPT ![c] = Append(@,
                    [m |-> m,
                     steps |-> ConsultSteps(m, client_open[c], s_ok, u_ok, g_ok, a_ok)])]
               /\ mem_calls' = [mem_calls EXCEPT ![c] = @ \o before \o after]
               /\ printed' = [printed EXCEPT ![c] = @ \cup MemPrinted(before \o after)]
               /\ gen_calls' = [gen_calls EXCEPT ![c] =
                    IF genai_client THEN Append(@, g_ok) ELSE @]
               /\ IF raised THEN
                    \* except Exception: the error is sent from the handler
                    PlainSend(c, "error", ConsultAfterGenError)
                  ELSE IF client_open[c] THEN
                    PlainSend(c, "response", "recv")
                  ELSE
                    \* the response send raises inside the try: except
                    \* Exception sends the error message, which raises too
                    /\ \E e1, e2 \in SendErrors :
                         /\ client_log' = [client_log EXCEPT ![c] =
                              @ \o << Sent(c, "response", <<>>),
                                      [type |-> "error", data |-> <<>>, ok |-> FALSE,
                                       after_disconnect |->
                                         seen_disconnect[c]
                                           \/ e1 = "WebSocketDisconnect"] >>]
                         /\ exc' = [exc EXCEPT ![c] = e2]
                         /\ seen_disconnect' = [seen_disconnect EXCEPT ![c] =
                              @ \/ "WebSocketDisconnect" \in {e1, e2}]
                    /\ HealthEnd(c)
  /\ UNCHANGED << active_sessions, ep, sid, recv_task, send_task, is_running, upstream,
                  client_open, n_client, n_up, up_calls, recv_calls, genai_client,
                  mem0_service, dog_name, dog_id, app_sessions, up_log, mem_ret,
                  prompt_ret, text_app, server_closed, ignored, check_ret >>

\* prescription / vaccination: generate_content is called outside any try
\* that catches Exception, so a raise leaves the handler with nothing sent
GenErrorReply == FALSE

\* the action of each handler that consults the model
AiAction(e) == IF e = "presc" THEN "check_interaction" ELSE "booster_due"

\* an add that stored nothing is answered with an error
ActionStepsStrict(e, m, open, ok, g_ok) ==
  LET item == Get(m, "item", "")
      stored == HasClient /\ item # "" /\ ok
  IN IF Get(m, "action", "list") = "add"
       THEN << SendStep(IF stored THEN "response" ELSE "error",
                        IF stored THEN "added" ELSE "", Text(item), open) >>
     ELSE <<>>

\* an action the handler does not know is answered with an error
ActionStepsUnknownError(e, m, open, ok, g_ok) ==
  LET action == Get(m, "action", "list")
      item == Get(m, "item", "")
      dog == Get(m, "dog_id", "default")
      add == IF e = "presc" THEN add_medication(HasClient, dog, Text(item), ok)
             ELSE add_vaccination(HasClient, dog, Text(item), ok)
      get == IF e = "presc" THEN get_medications(HasClient, dog, SearchReply(ok))
             ELSE get_vaccinations(HasClient, dog, SearchReply(ok))
      ai == genai_client /\ (e = "presc" => item # "")
      prompt == << IF e = "presc" THEN "You are checking medication interactions for "
                   ELSE "You are managing vaccinations for " >>
  IN IF action = "add"
       THEN (IF HasService /\ item # "" THEN MemSteps(add, ok) ELSE <<>>)
            \o << SendStep("response", "added", Text(item), open) >>
     ELSE IF action = "list"
       THEN (IF HasService THEN MemSteps(get, ok) ELSE <<>>)
            \o << SendStep("response", "list", <<>>, open) >>
     ELSE IF action = AiAction(e)
       THEN (IF HasService THEN MemSteps(get, ok) ELSE <<>>)
            \o (IF ~ai THEN << SendStep("error", "", <<>>, open) >>
                ELSE << PromptStep(prompt), GenStep(prompt, g_ok) >>
                     \o (IF g_ok
                           THEN << SendStep("response",
                                            IF e = "presc" THEN "interaction_check"
                                            ELSE "booster_schedule", AiText, open) >>
                         ELSE <<>>))
     ELSE << SendStep("error", "", << "Unknown action" >>, open) >>

\* prescription_websocket / vaccination_websocket: the steps for one request
ActionSteps(e, m, open, ok, g_ok) ==
  LET action == Get(m, "action", "list")
      item == Get(m, "item", "")
      dog == Get(m, "dog_id", "default")
      add == IF e = "presc" THEN add_medication(HasClient, dog, Text(item), ok)
             ELSE add_vaccination(HasClient, dog, Text(item), ok)
      get == IF e = "presc" THEN get_medications(HasClient, dog, SearchReply(ok))
             ELSE get_vaccinations(HasClient, dog, SearchReply(ok))
      ai == genai_client /\ (e = "presc" => item # "")
      prompt == << IF e = "presc" THEN "You are checking medication interactions for "
                   ELSE "You are managing vaccinations for " >>
  IN IF action = "add"
       THEN (IF HasService /\ item # "" THEN MemSteps(add, ok) ELSE <<>>)
            \o << SendStep("response", "added", Text(item), open) >>
     ELSE IF action = "list"
       THEN (IF HasService THEN MemSteps(get, ok) ELSE <<>>)
            \o << SendStep("response", "list", <<>>, open) >>
     ELSE IF action = AiAction(e)
       THEN (IF HasService THEN MemSteps(get, ok) ELSE <<>>)
            \o (IF ~ai THEN << SendStep("error", "", <<>>, open) >>
                ELSE << PromptStep(prompt), GenStep(prompt, g_ok) >>
                     \o (IF g_ok
                           THEN << SendStep("response",
                                            IF e = "presc" THEN "interaction_check"
                                            ELSE "booster_schedule", AiText, open) >>
                         ELSE <<>>))
     ELSE <<>>

\* prescription_websocket / vaccination_websocket: one request
ActionRecv(c) ==
  /\ ep[c] \in {"presc", "vacc"}
  /\ pc[c] = "recv"
  /\ inbox[c] # <<>>
  /\ inbox' = [inbox EXCEPT ![c] = <<>>]
  /\ LET m == inbox[c][1]
         dog == Get(m, "dog_id", "default")
         ai == genai_client /\ (ep[c] = "presc" => m.item # "")
         Logged(ok, g_ok) ==
           [req_log EXCEPT ![c] = Append(@,
              [m |-> m, steps |-> ActionSteps(ep[c], m, client_open[c], ok, g_ok)])]
     IN IF m.action = "add" THEN
          \E ok \in BOOLEAN :
            LET calls == IF m.item # "" THEN MemAdd(dog, "system", ok) ELSE <<>>
            IN /\ req_log' = Logged(ok, TRUE)
               /\ mem_calls' = [mem_calls EXCEPT ![c] = @ \o calls]
               /\ printed' = [printed EXCEPT ![c] = @ \cup MemPrinted(calls)]
               /\ PlainSend(c, "response", "recv")
               /\ UNCHANGED gen_calls
        ELSE IF m.action = "list" \/ m.action = AiAction(ep[c]) THEN
          \E ok, g_ok \in BOOLEAN :
            LET calls == MemSearch(dog, ok)
            IN /\ req_log' = Logged(ok, g_ok)
               /\ mem_calls' = [mem_calls EXCEPT ![c] = @ \o calls]
               /\ printed' = [printed EXCEPT ![c] = @ \cup MemPrinted(calls)]
               /\ IF m.action = "list" THEN
                    /\ PlainSend(c, "response", "recv")
                    /\ UNCHANGED gen_calls
                  ELSE IF ~ai THEN
                    \* "Cannot check interactions" / "Cannot calculate boosters"
                    /\ PlainSend(c, "error", "recv")
                    /\ UNCHANGED gen_calls
                  ELSE
                    /\ gen_calls' = [gen_calls EXCEPT ![c] = Append(@, g_ok)]
                    /\ IF g_ok THEN PlainSend(c, "response", "recv")
                       ELSE IF GenErrorReply THEN PlainSend(c, "error", "done")
                       ELSE
                         /\ exc' = [exc EXCEPT ![c] = "Exception"]
                         /\ HealthEnd(c)
                         /\ UNCHANGED << client_log, seen_disconnect >>
        ELSE
          \* no branch matches the action: nothing is sent
          /\ req_log' = Logged(TRUE, TRUE)
          /\ UNCHANGED << mem_calls, gen_calls, printed, client_log, pc, exc,
                          seen_disconnect, health_sessions >>
  /\ UNCHANGED << active_sessions, ep, sid, recv_task, send_task, is_running, upstream,
                  client_open, n_client, n_up, up_calls, recv_calls, genai_client,
                  mem0_service, dog_name, dog_id, app_sessions, up_log, mem_ret,
                  prompt_ret, text_app, server_closed, ignored, check_ret >>

\* ------------------------------------------ hf_space/app.py: voice and video
\* the handler leaves its try statement: "finally: active_sessions.pop(...)"
AppEnd(c) ==
  /\ app_sessions' = Pop(app_sessions, sid[c])
  /\ pc' = [pc EXCEPT ![c] = "done"]

\* a send_text inside the loop's inner try: WebSocketDisconnect breaks the
\* loop, any other exception goes to the outer "except Exception"
AppSend(c, type) ==
  /\ client_log' = [client_log EXCEPT ![c] = Append(@, Sent(c, type, <<>>))]
  /\ IF client_open[c] THEN
       UNCHANGED << pc, exc, seen_disconnect, app_sessions >>
     ELSE
       \E e \in SendErrors :
         IF e = "WebSocketDisconnect" THEN
           /\ seen_disconnect' = [seen_disconnect EXCEPT ![c] = TRUE]
           /\ AppEnd(c)
           /\ UNCHANGED exc
         ELSE
           /\ exc' = [exc EXCEPT ![c] = e]
           /\ pc' = [pc EXCEPT ![c] = "error"]
           /\ UNCHANGED << seen_disconnect, app_sessions >>

\* the ready message is sent inside the outer try only, then the session is
\* registered: active_sessions[session_id] = {...}
AppReady(c) ==
  /\ ep[c] \in AppEps
  /\ pc[c] = "accepted"
  /\ client_log' = [client_log EXCEPT ![c] = Append(@, Sent(c, "ready", <<>>))]
  /\ IF client_open[c] THEN
       /\ app_sessions' = [app_sessions EXCEPT ![sid[c]] = c]
       /\ pc' = [pc EXCEPT ![c] = "recv"]
       /\ UNCHANGED << exc, seen_disconnect >>
     ELSE
       \* WebSocketDisconnect too is caught by "except Exception"
       /\ \E e \in SendErrors :
            /\ exc' = [exc EXCEPT ![c] = e]
            /\ seen_disconnect' = [seen_disconnect EXCEPT ![c] =
                 @ \/ e = "WebSocketDisconnect"]
       /\ pc' = [pc EXCEPT ![c] = "error"]
       /\ UNCHANGED app_sessions
  /\ UNCHANGED << active_sessions, ep, sid, recv_task, send_task, is_running, upstream,
                  client_open, inbox, n_client, n_up, up_calls, recv_calls, printed,
                  genai_client, mem0_service, health_sessions, mem_calls, gen_calls,
                  dog_name, dog_id, up_log, mem_ret, prompt_ret, req_log, text_app,
                  server_closed, ignored, check_ret >>

\* except Exception as e: await websocket.send_text(error); then finally
AppError(c) ==
  /\ ep[c] \in AppEps
  /\ pc[c] = "error"
  /\ client_log' = [client_log EXCEPT ![c] = Append(@, Sent(c, "error", <<>>))]
  /\ \E e \in SendErrors :
       /\ exc' = [exc EXCEPT ![c] = IF client_open[c] THEN "none" ELSE e]
       /\ seen_disconnect' = [seen_disconnect EXCEPT ![c] =
            @ \/ (~client_open[c] /\ e = "WebSocketDisconnect")]
  /\ AppEnd(c)
  /\ UNCHANGED << active_sessions, ep, sid, recv_task, send_task, is_running, upstream,
                  client_open, inbox, n_client, n_up, up_calls, recv_calls, printed,
                  genai_client, mem0_service, health_sessions, mem_calls, gen_calls,
                  dog_name, dog_id, up_log, mem_ret, prompt_ret, req_log, text_app,
                  server_closed, ignored, check_ret >>

\* voice_websocket: receive_bytes, then the audio_received acknowledgement
AppVoiceRecv(c) ==
  /\ ep[c] = "avoice"
  /\ pc[c] = "recv"
  /\ inbox[c] # <<>>
  /\ inbox' = [inbox EXCEPT ![c] = <<>>]
  /\ AppSend(c, "audio_received")
  /\ UNCHANGED << active_sessions, ep, sid, recv_task, send_task, is_running, upstream,
                  client_open, n_client, n_up, up_calls, recv_calls, printed,
                  genai_client, mem0_service, health_sessions, mem_calls, gen_calls,
                  dog_name, dog_id, up_log, mem_ret, prompt_ret, req_log, text_app,
                  server_closed, ignored, check_ret >>

\* receive_bytes / receive_text raises WebSocketDisconnect: break
AppRecvDisconnect(c) ==
  /\ ep[c] \in AppEps
  /\ pc[c] = "recv"
  /\ inbox[c] = <<>>
  /\ ~client_open[c]
  /\ seen_disconnect' = [seen_disconnect EXCEPT ![c] = TRUE]
  /\ AppEnd(c)
  /\ UNCHANGED << active_sessions, ep, sid, exc, recv_task, send_task, is_running,
                  upstream, client_open, inbox, n_client, n_up, up_calls, recv_calls,
                  client_log, printed, genai_client, mem0_service, health_sessions,
                  mem_calls, gen_calls, dog_name, dog_id, up_log, mem_ret, prompt_ret,
                  req_log, text_app, server_closed, ignored, check_ret >>

\* a frame that cannot be parsed is skipped
AppFrameRaisesNever(m) == FALSE

\* json.loads(message) raises JSONDecodeError, data["type"] raises KeyError
AppFrameRaises(m) == m.type \in {"not_json", "missing"}

\* video_websocket: one frame; a frame that is not JSON or has no "type"
\* raises, generate_content may raise; both reach the outer except
AppVideoRecv(c) ==
  /\ ep[c] = "avideo"
  /\ pc[c] = "recv"
  /\ inbox[c] # <<>>
  /\ inbox' = [inbox EXCEPT ![c] = <<>>]
  /\ LET m == inbox[c][1]
     IN IF AppFrameRaises(m) THEN
          /\ exc' = [exc EXCEPT ![c] = "Exception"]
          /\ pc' = [pc EXCEPT ![c] = "error"]
          /\ UNCHANGED << client_log, seen_disconnect, app_sessions, gen_calls >>
        ELSE IF m.type = "video_frame" THEN
          /\ AppSend(c, "frame_received")
          /\ UNCHANGED gen_calls
        ELSE IF m.type = "text_query" /\ genai_client THEN
          \E g_ok \in BOOLEAN :
            /\ gen_calls' = [gen_calls EXCEPT ![c] = Append(@, g_ok)]
            /\ IF g_ok THEN AppSend(c, "text_response")
               ELSE /\ exc' = [exc EXCEPT ![c] = "Exception"]
                    /\ pc' = [pc EXCEPT ![c] = "error"]
                    /\ UNCHANGED << client_log, seen_disconnect, app_sessions >>
        ELSE
          UNCHANGED << client_log, pc, exc, seen_disconnect, app_sessions, gen_calls >>
  /\ UNCHANGED << active_sessions, ep, sid, recv_task, send_task, is_running, upstream,
                  client_open, n_client, n_up, up_calls, recv_calls, printed,
                  genai_client, mem0_service, health_sessions, mem_calls, dog_name,
                  dog_id, up_log, mem_ret, prompt_ret, req_log, text_app,
                  server_closed, ignored, check_ret >>

AppStep(c) ==
  \/ AppReady(c)
  \/ AppError(c)
  \/ AppVoiceRecv(c)
  \/ AppRecvDisconnect(c)
  \/ AppVideoRecv(c)


\* ---------------------------------------------------------------------------
\* prescription_websocket, check_interaction: the verdict read from the reply
\* ---------------------------------------------------------------------------

\* a string as its characters
Chars(w) ==
  CASE w = "SAFE" -> << "S", "A", "F", "E" >>
    [] w = "safe" -> << "s", "a", "f", "e" >>
    [] w = "Safe" -> << "S", "a", "f", "e" >>
    [] w = "sa" -> << "s", "a" >>
    [] w = "fe" -> << "f", "e" >>
    [] w = "unsafe" -> << "u", "n", "s", "a", "f", "e" >>
    [] w = "not safe" -> << "n", "o", "t", " ", "s", "a", "f", "e" >>
    [] w = "CAUTION: " -> << "C", "A", "U", "T", "I", "O", "N", ":", " " >>
    [] w = "WARNING: " -> << "W", "A", "R", "N", "I", "N", "G", ":", " " >>
    [] w = "ok" -> << "o", "k" >>

\* the pieces the reply texts are put together from
Pieces ==
  {"SAFE", "safe", "Safe", "sa", "fe", "unsafe", "not safe", "CAUTION: ", "WARNING: ",
   "ok"}

RECURSIVE Concat(_)
Concat(ws) == IF ws = <<>> THEN <<>> ELSE Chars(Head(ws)) \o Concat(Tail(ws))

\* response.text of generate_content: any text of up to MaxPieces pieces
ReplyTexts == {Concat(ws) : ws \in SeqsUpTo(Pieces, MaxPieces)}

\* str.upper() of one character of the replies
UpperChar(ch) ==
  CASE ch = "s" -> "S" [] ch = "a" -> "A" [] ch = "f" -> "F" [] ch = "e" -> "E"
    [] ch = "u" -> "U" [] ch = "n" -> "N" [] ch = "o" -> "O" [] ch = "t" -> "T"
    [] ch = "k" -> "K"
    [] OTHER -> ch

\* interaction_text.upper()
Upper(text) == [i \in 1..Len(text) |-> UpperChar(text[i])]

\* the reply is searched as it is, without upper()
safe_case_sensitive(interaction_text) ==
  Contains(interaction_text, << "S", "A", "F", "E" >>)

\* safe = "SAFE" in interaction_text.upper()
safe(interaction_text) == Contains(Upper(interaction_text), << "S", "A", "F", "E" >>)

\* the message sent for check_interaction after generate_content returned
InteractionCheck(medication, interaction_text) ==
  [type |-> "response", action |-> "interaction_check", medication |-> medication,
   interactions |-> interaction_text, safe_to_prescribe |-> safe(interaction_text)]

\* one check_interaction request with a generation client and a medication:
\* the model replies interaction_text
CheckInteraction(medication, interaction_text) ==
  /\ genai_client
  /\ check_ret.fn = "none"
  /\ check_ret' = [fn |-> "check_interaction", reply |-> interaction_text,
                   message |-> InteractionCheck(medication, interaction_text)]
  /\ UNCHANGED << active_sessions, ep, sid, pc, exc, recv_task, send_task, is_running,
                  upstream, client_open, inbox, n_client, n_up, up_calls, recv_calls,
                  client_log, seen_disconnect, printed, genai_client, mem0_service,
                  health_sessions, mem_calls, gen_calls, dog_name, dog_id,
                  app_sessions, up_log, mem_ret, prompt_ret, req_log, text_app,
                  server_closed, ignored >>

\* ------------------------- POST /health/text of backend/main.py and app.py
TextApps == {"backend", "hf_space"}

DigitChars == << "0", "1", "2", "3", "4", "5", "6", "7", "8", "9" >>

\* str(n) of an int, as a sequence of characters
RECURSIVE NatDigits(_)
NatDigits(n) ==
  IF n < 10 THEN << DigitChars[n + 1] >>
  ELSE NatDigits(n \div 10) \o << DigitChars[(n % 10) + 1] >>

Str(n) == IF n < 0 THEN << "-" >> \o NatDigits(-n) ELSE NatDigits(n)

\* s[:k]
Take(s, k) == SubSeq(s, 1, IF Len(s) < k THEN Len(s) ELSE k)

\* an id that also depends on the dog
text_session_id_by_dog(app, request) ==
  << "text_", request.dog_name >> \o Str(text_app.hash[request.message])

\* backend: "text_" + str(hash(request.message))[:8]
\* app.py:  f"text_{hash(request.message) % 100000}"
text_session_id(app, request) ==
  IF app = "backend"
    THEN << "text_" >> \o Take(Str(text_app.hash[request.message]), 8)
    ELSE << "text_" >> \o Str(text_app.hash[request.message] % 100000)

\* the interpreter starts: the hash of every str is fixed for the process
TextStart(app, h) ==
  /\ text_app.app = "none"
  /\ text_app' = [text_app EXCEPT !.app = app, !.hash = h]
  /\ UNCHANGED << active_sessions, ep, sid, pc, exc, recv_task, send_task, is_running,
                  upstream, client_open, inbox, n_client, n_up, up_calls, recv_calls,
                  client_log, seen_disconnect, printed, genai_client, mem0_service,
                  health_sessions, mem_calls, gen_calls, dog_name, dog_id,
                  app_sessions, up_log, mem_ret, prompt_ret, req_log, server_closed,
                  ignored, check_ret >>

\* what model.generate_content does: it returns, or raises with this text
GenOutcomes == {"ok", "quota exceeded", "deadline exceeded"}

\* a raise of generate_content is answered with an empty response
text_reply_partial(app, request, outcome) ==
  IF app = "hf_space" /\ ~genai_client
    THEN [request |-> request, outcome |-> outcome, status |-> 500, steps |-> <<>>,
          response |-> <<>>, session_id |-> <<>>,
          detail |-> "GEMINI_API_KEY not configured"]
  ELSE [request |-> request, outcome |-> outcome, status |-> 200,
        steps |-> << "prompt", "generate" >>,
        response |-> IF outcome = "ok" THEN AiText ELSE <<>>,
        session_id |-> text_session_id(app, request), detail |-> ""]

\* text_consultation: the HTTP outcome of one request.  app.py raises 500
\* without a key before its try; inside the try the prompt is built and
\* generate_content called, and "except Exception as e" raises 500 with str(e)
text_reply(app, request, outcome) ==
  IF app = "hf_space" /\ ~genai_client
    THEN [request |-> request, outcome |-> outcome, status |-> 500, steps |-> <<>>,
          response |-> <<>>, session_id |-> <<>>,
          detail |-> "GEMINI_API_KEY not configured"]
  ELSE IF outcome # "ok"
    THEN [request |-> request, outcome |-> outcome, status |-> 500,
          steps |-> << "prompt", "generate" >>,
          response |-> <<>>, session_id |-> <<>>, detail |-> outcome]
  ELSE [request |-> request, outcome |-> outcome, status |-> 200,
        steps |-> << "prompt", "generate" >>,
        response |-> AiText, session_id |-> text_session_id(app, request),
        detail |-> ""]

\* text_consultation: one request is answered
TextConsultation(request, outcome) ==
  /\ text_app.app \in TextApps
  /\ Len(text_app.replies) < MaxMsgs
  /\ text_app' = [text_app EXCEPT !.replies =
       Append(@, text_reply(text_app.app, request, outcome))]
  /\ UNCHANGED << active_sessions, ep, sid, pc, exc, recv_task, send_task, is_running,
                  upstream, client_open, inbox, n_client, n_up, up_calls, recv_calls,
                  client_log, seen_disconnect, printed, genai_client, mem0_service,
                  health_sessions, mem_calls, gen_calls, dog_name, dog_id,
                  app_sessions, up_log, mem_ret, prompt_ret, req_log, server_closed,
                  ignored, check_ret >>

\* ------------------------------------------------------------ specifications
BackendStep(c) ==
  \/ BackendConnect(c)
  \/ BackendReady(c)
  \/ BackendExit(c)
  \/ VoiceError(c)
  \/ VoiceRecv(c)
  \/ VoiceRecvDisconnect(c)
  \/ VoiceWake(c)
  \/ VideoRecv(c)
  \/ VideoRecvDisconnect(c)

\* two clients on backend/main.py, free to name the same session_id; each
\* sends at most one frame and its upstream delivers at most one event
SharedFrames(e) ==
  IF e = "bvoice"
    THEN {[type |-> "bytes", has_data |-> TRUE, data |-> Payload(MaxLen)]}
    ELSE {[type |-> "audio", has_data |-> TRUE, data |-> B64Encode(Payload(MaxLen))]}
SharedEvents ==
  {[kind |-> "response", parts |-> << AudioPart >>, closed |-> FALSE],
   [kind |-> "turn_complete", parts |-> <<>>, closed |-> FALSE],
   [kind |-> "error", parts |-> <<>>, closed |-> TRUE]}
First(c) == n_client[c] = 0
FirstUp(c) == n_up[c] = 0

NextBackend ==
  \/ \E c \in Conns, e \in BackendEps, s \in SessionIds : Accept(c, e, s)
  \/ \E c \in Conns : \E m \in SharedFrames(ep[c]) : First(c) /\ ClientSend(c, m)
  \/ \E c \in Conns : ClientClose(c)
  \/ \E c \in Conns : BackendStep(c)
  \/ \E c \in Conns, ev \in SharedEvents : FirstUp(c) /\ VoiceSend(c, ev)
  \/ \E c \in Conns, ev \in SharedEvents : FirstUp(c) /\ VideoTurn(c, ev)

SpecBackend == InitBackend /\ [][NextBackend]_vars

LiveStep(c) ==
  \/ LiveHello(c)
  \/ LiveConnect(c)
  \/ LiveRecv(c)
  \/ LiveRecvDisconnect(c)
  \/ LiveJoin(c)
  \/ LiveExit(c)

\* one client on one of the relay endpoints
Relay == "c1"
RelayEps == BackendEps \cup {LiveEp}

NextRelay ==
  \/ \E e \in RelayEps : Accept(Relay, e, "s1")
  \/ \E m \in FramesOf(ep[Relay]) \ LiveConfigMsgs : ClientSend(Relay, m)
  \/ ClientClose(Relay)
  \/ BackendStep(Relay)
  \/ LiveStep(Relay)
  \/ \E ev \in UpEvents : VoiceSend(Relay, ev)
  \/ \E ev \in UpEvents : VideoTurn(Relay, ev)
  \/ \E ev \in UpEvents : LiveSend(Relay, ev)

SpecRelay == InitRelay /\ [][NextRelay]_vars

HealthStep(c) ==
  \/ HealthRegister(c)
  \/ HealthHello(c)
  \/ HealthDisconnect(c)
  \/ ConsultRecv(c)
  \/ ActionRecv(c)

\* one client on one of the request/reply endpoints of health_ws.py
NextHealth ==
  \/ \E e \in HealthEps : Accept(Relay, e, "s1")
  \/ \E m \in FramesOf(ep[Relay]) \ (ConsultModeMsgs \cup SubjectMsgs) :
       ClientSend(Relay, m)
  \/ ClientClose(Relay)
  \/ HealthStep(Relay)

SpecHealth == InitHealth /\ [][NextHealth]_vars

\* one client on /ws/voice.  The event loop runs a coroutine that can run, so
\* the handler's own steps are weakly fair; the client and the upstream are
\* free never to send anything.
NextVoice ==
  \/ Accept(Relay, "bvoice", "s1")
  \/ \E m \in VoiceFrames : ClientSend(Relay, m)
  \/ ClientClose(Relay)
  \/ BackendConnect(Relay)
  \/ BackendReady(Relay)
  \/ BackendExit(Relay)
  \/ VoiceError(Relay)
  \/ VoiceRecv(Relay)
  \/ VoiceRecvDisconnect(Relay)
  \/ VoiceWake(Relay)
  \/ \E ev \in UpEvents : VoiceSend(Relay, ev)

SpecVoice ==
  /\ InitBackend
  /\ [][NextVoice]_vars
  /\ WF_vars(VoiceWake(Relay))
  /\ WF_vars(BackendExit(Relay))

\* one client on /ws/live that sends every kind of config frame; each of the
\* other kinds of frame and of upstream event occurs in one form
LiveFrames ==
  LiveConfigMsgs
  \cup {[type |-> t, has_data |-> FALSE, data |-> <<>>] : t \in {"config", "stop"}}
  \cup {[type |-> "audio", has_data |-> TRUE, data |-> B64Encode(Payload(MaxLen))]}
  \cup {[type |-> "video_frame", has_data |-> TRUE, data |-> B64Encode(FramePayload)]}
  \cup {[type |-> t, has_data |-> FALSE, data |-> <<>>] : t \in {"text", "missing"}}

NextLive ==
  \/ Accept(Relay, LiveEp, "s1")
  \/ \E m \in LiveFrames : ClientSend(Relay, m)
  \/ ClientClose(Relay)
  \/ LiveStep(Relay)
  \/ \E ev \in SharedEvents : LiveSend(Relay, ev)

SpecLive == InitRelay /\ [][NextLive]_vars

\* two clients on the handlers that keep a registry: backend/main.py and
\* hf_space/app.py voice and video, free to name the same session_id, and
\* consultation_websocket
RegistryEps == BackendEps \cup AppEps \cup {"consult"}
RegistryFrames(e) ==
  IF e \in BackendEps THEN SharedFrames(e)
  ELSE IF e = "avoice" THEN {[type |-> "bytes", has_data |-> TRUE, data |-> Payload(MaxLen)]}
  ELSE IF e = "avideo" THEN AppVideoMsgs
  ELSE {[message |-> "limping", dog_id |-> "rex", mode |-> "text"]}

NextRegistry ==
  \/ \E c \in Conns, e \in RegistryEps, s \in SessionIds : Accept(c, e, s)
  \/ \E c \in Conns : \E m \in RegistryFrames(ep[c]) : First(c) /\ ClientSend(c, m)
  \/ \E c \in Conns : ClientClose(c)
  \/ \E c \in Conns : BackendStep(c)
  \/ \E c \in Conns : AppStep(c)
  \/ \E c \in Conns : HealthRegister(c) \/ HealthHello(c) \/ HealthDisconnect(c)
                        \/ ConsultRecv(c)
  \/ \E c \in Conns, ev \in SharedEvents : FirstUp(c) /\ VoiceSend(c, ev)
  \/ \E c \in Conns, ev \in SharedEvents : FirstUp(c) /\ VideoTurn(c, ev)

SpecRegistry == InitRelay /\ [][NextRegistry]_vars

\* the memory service called directly: the service is built with or without
\* a client, and every method is called with every input and backend outcome
InitMemory ==
  /\ InitConns
  /\ genai_client = FALSE
  /\ mem0_service \in {"no_client", "ok"}

NextMemory ==
  \/ \E fn \in RecallFns, d \in DogIds, q \in Queries, res \in SearchOutcomes :
       Recall(fn, d, q, res)
  \/ \E fn \in RememberFns, d \in DogIds, args_ok, add_ok \in BOOLEAN :
       Remember(fn, d, IF fn = "add_consultation_memory" THEN "user" ELSE "",
                (fn \in {"add_consultation_memory", "store_consultation_findings"})
                  => args_ok,
                add_ok)

SpecMemory == InitMemory /\ [][NextMemory]_vars

\* the prompt builders called directly with every name and message over
\* Symbols and every kind of the other arguments
InitPrompt == InitConns /\ genai_client = FALSE /\ mem0_service = "absent"

NextPrompt ==
  \E fn \in PromptFns, user_message, name \in Texts, breed \in Breeds,
     health_context \in HealthContexts, memory_context \in MemoryContexts,
     mode \in Modes :
    BuildPrompt(fn, user_message, name, breed, health_context, memory_context, mode)

SpecPrompt == InitPrompt /\ [][NextPrompt]_vars

\* one process of either application serving POST /health/text
InitText == InitConns /\ genai_client \in BOOLEAN /\ mem0_service = "absent"

NextText ==
  \/ \E app \in TextApps, h \in [TextMessages -> HashValues] : TextStart(app, h)
  \/ \E request \in TextRequests, outcome \in GenOutcomes :
       TextConsultation(request, outcome)

SpecText == InitText /\ [][NextText]_vars

\* two clients on the request/reply endpoints of health_ws.py that stay
\* connected, each sending one request, in any interleaving: a consultation
\* in every mode, and requests that name either dog or none
RequestFrames(e) ==
  IF e = "consult"
    THEN ConsultModeMsgs
         \cup {[message |-> "limping", dog_id |-> "rex", mode |-> "text"],
               [message |-> "limping", dog_id |-> "default", mode |-> "text"],
               [message |-> "limping", mode |-> "text"]}
    ELSE SubjectMsgs
         \cup {[action |-> a, item |-> IF e = "presc" THEN "aspirin" ELSE "rabies",
                dog_id |-> "rex"] : a \in {"add", "list"}}

NextRequests ==
  \/ \E c \in Conns, e \in HealthEps : Accept(c, e, "s1")
  \/ \E c \in Conns : \E m \in RequestFrames(ep[c]) : First(c) /\ ClientSend(c, m)
  \/ \E c \in Conns : HealthRegister(c) \/ HealthHello(c)
  \/ \E c \in Conns : ConsultRecv(c)
  \/ \E c \in Conns : ActionRecv(c)

SpecRequests == InitHealth /\ [][NextRequests]_vars

\* the check_interaction branch of prescription_websocket on every reply text
InitVerdict == InitConns /\ genai_client = TRUE /\ mem0_service = "absent"

NextVerdict ==
  \E medication \in {"aspirin", "carprofen"}, interaction_text \in ReplyTexts :
    CheckInteraction(medication, interaction_text)

SpecVerdict == InitVerdict /\ [][NextVerdict]_vars

\* one client on /ws/video of hf_space/app.py, with or without an API key
AppVideoFrames ==
  {[type |-> t, has_data |-> FALSE, data |-> <<>>] :
     t \in {"video_frame", "text_query", "missing", "not_json"}}

NextAppVideo ==
  \/ Accept(Relay, "avideo", "s1")
  \/ \E m \in AppVideoFrames : ClientSend(Relay, m)
  \/ ClientClose(Relay)
  \/ AppReady(Relay)
  \/ AppVideoRecv(Relay)
  \/ AppRecvDisconnect(Relay)
  \/ AppError(Relay)

SpecAppVideo == InitRelay /\ [][NextAppVideo]_vars

\* =================================================================== claims
LogIdx(log) == 1..Len(log)

\* C1: on backend/main.py no two handlers hold an open upstream connection
\* for the same session id, and an entry of active_sessions is never replaced
\* while its handler's connection is open.
C1_SessionIdExclusive ==
  /\ \A a, b \in Conns :
       (a # b /\ upstream[a] = "open" /\ upstream[b] = "open") => sid[a] # sid[b]
  /\ \A a \in Conns : upstream[a] = "open" => active_sessions[sid[a]] = a

\* C2: in voice_websocket, once either relay task has finished the handler
\* goes on, with no help from the client or the upstream, to a state where
\* no task runs, the upstream connection is closed and the session id is not
\* in active_sessions.
C2_TaskEndEndsSession ==
  (/\ ep[Relay] = "bvoice"
   /\ pc[Relay] = "wait"
   /\ (Finished(recv_task[Relay]) \/ Finished(send_task[Relay])))
  ~> (/\ pc[Relay] = "done"
      /\ recv_task[Relay] # "run"
      /\ send_task[Relay] # "run"
      /\ upstream[Relay] = "closed"
      /\ active_sessions[sid[Relay]] = NoConn)

C2_Witness ==
  /\ ep[Relay] = "bvoice"
  /\ pc[Relay] = "done"
  /\ recv_task[Relay] = "done"
  /\ send_task[Relay] = "cancelled"
  /\ upstream[Relay] = "closed"
  /\ active_sessions[sid[Relay]] = NoConn

\* C3: in live_session, once one direction has ended the session can end
\* without a further message: the handler has a step of its own to take (the
\* other direction's pending read is cancelled) until the upstream connection
\* is released.
C3_OneDirectionEndsBoth ==
  (/\ ep[Relay] = LiveEp
   /\ pc[Relay] = "tg"
   /\ (recv_task[Relay] = "done" \/ send_task[Relay] = "done"))
  => ENABLED LiveJoin(Relay)

\* C4: in every relay handler a client frame that has arrived can be read
\* while the session relays, whether or not the upstream has answered.
Relaying(c) ==
  /\ upstream[c] = "open"
  /\ \/ ep[c] = "bvideo" /\ pc[c] \in {"recv", "turn"}
     \/ ep[c] = "bvoice" /\ pc[c] = "wait" /\ recv_task[c] = "run"
     \/ ep[c] = LiveEp /\ pc[c] = "tg" /\ recv_task[c] = "run"
C4_ReadNeverWaitsOnUpstream ==
  (Relaying(Relay) /\ inbox[Relay] # <<>>)
  => ENABLED (VoiceRecv(Relay) \/ VideoRecv(Relay) \/ LiveRecv(Relay))

\* C5: in live_session and video_websocket, after an exception while handling
\* one message no client frame is read, nothing is forwarded upstream and
\* nothing is relayed to the client.
MessageErrors == {"Receive error", "Send error", "Video error"}
C5_ExceptionEndsSession ==
  [][(ep[Relay] \in {LiveEp, "bvideo"} /\ printed[Relay] \cap MessageErrors # {})
     => /\ (inbox[Relay] = <<>> \/ inbox'[Relay] = inbox[Relay])
        /\ up_calls'[Relay] = up_calls[Relay]
        /\ client_log'[Relay] = client_log[Relay]]_vars

\* C6: a session in which a generation call raised does not end, with the
\* client still connected, before an error message was delivered.
C6_UpstreamFailureReported ==
  (/\ pc[Relay] = "done"
   /\ client_open[Relay]
   /\ \E i \in LogIdx(gen_calls[Relay]) : ~gen_calls[Relay][i])
  => \E j \in LogIdx(client_log[Relay]) :
       client_log[Relay][j].type = "error" /\ client_log[Relay][j].ok

\* C7: in consultation_websocket no client message is read once a
\* generate_content call has raised.
C7_FailedCallEndsSession ==
  [][(/\ ep[Relay] = "consult"
      /\ \E i \in LogIdx(gen_calls[Relay]) : ~gen_calls[Relay][i])
     => (inbox[Relay] = <<>> \/ inbox'[Relay] = inbox[Relay])]_vars

\* C8: in live_session live.receive() is not called again after a receive
\* that raised: the failed call is the last one.
C8_NoRetry ==
  ep[Relay] = LiveEp =>
    \A i \in LogIdx(recv_calls[Relay]) :
      recv_calls[Relay][i] = "failed" => i = Len(recv_calls[Relay])

\* C9: no send is attempted on a client socket after a WebSocketDisconnect
\* was raised in its handler.
C9_SilentAfterDisconnect ==
  \A i \in LogIdx(client_log[Relay]) : ~client_log[Relay][i].after_disconnect

\* C10: when live_session or video_websocket reads the audio frame
\* {type: audio, data: base64(B)}, that step issues exactly one
\* send_realtime_input call, with the bytes B and mime type audio/pcm.
C10_AudioForwardedVerbatim ==
  [][\A B \in ByteSeqs :
       (/\ ep[Relay] \in {LiveEp, "bvideo"}
        /\ inbox[Relay] = << [type |-> "audio", has_data |-> TRUE,
                              data |-> B64Encode(B)] >>
        /\ inbox'[Relay] = <<>>)
       => /\ Len(up_calls'[Relay]) = Len(up_calls[Relay]) + 1
          /\ SubSeq(up_calls'[Relay], 1, Len(up_calls[Relay])) = up_calls[Relay]
          /\ LET call == up_calls'[Relay][Len(up_calls'[Relay])]
             IN /\ call.op = "audio"
                /\ call.mime = "audio/pcm"
                /\ call.data = B]_vars

C10_Witness ==
  /\ ep[Relay] = LiveEp
  /\ \E i \in LogIdx(up_calls[Relay]) :
       /\ up_calls[Relay][i].op = "audio"
       /\ up_calls[Relay][i].mime = "audio/pcm"
       /\ up_calls[Relay][i].data = << 1, 2 >>
       /\ up_calls[Relay][i].ok

\* C11: when live_session or video_websocket reads the frame
\* {type: video_frame, data: base64(B)}, that step issues exactly one
\* send_realtime_input call carrying the bytes B as image/jpeg.
C11_VideoFrameForwarded ==
  [][(/\ ep[Relay] \in {LiveEp, "bvideo"}
      /\ inbox[Relay] = << [type |-> "video_frame", has_data |-> TRUE,
                            data |-> B64Encode(FramePayload)] >>
      /\ inbox'[Relay] = <<>>)
     => /\ Len(up_calls'[Relay]) = Len(up_calls[Relay]) + 1
        /\ LET call == up_calls'[Relay][Len(up_calls'[Relay])]
           IN /\ call.mime = "image/jpeg"
              /\ call.data = FramePayload]_vars

\* the client message a handler sends for one part of an upstream response,
\* as the source of each handler writes it
PartMessages(e, p) ==
  IF e = LiveEp THEN
    (IF p.inline THEN << [type |-> "audio", data |-> B64Encode(p.data)] >> ELSE <<>>)
    \o (IF p.text THEN << [type |-> "transcript", data |-> <<>>] >> ELSE <<>>)
  ELSE IF e = "bvideo" THEN
    IF p.inline THEN << [type |-> "audio", data |-> B64Encode(p.data)] >> ELSE <<>>
  ELSE
    IF p.inline THEN << [type |-> "bytes", data |-> p.data] >> ELSE <<>>

RECURSIVE ChunkMessages(_, _)
ChunkMessages(e, parts) ==
  IF parts = <<>> THEN <<>>
  ELSE PartMessages(e, Head(parts)) \o ChunkMessages(e, Tail(parts))

\* the messages of all the chunks the upstream delivered, in upstream order
RECURSIVE Expected(_, _)
Expected(e, chunks) ==
  IF chunks = <<>> THEN <<>>
  ELSE ChunkMessages(e, Head(chunks)) \o Expected(e, Tail(chunks))

\* the media messages that reached the client, in the order of their sends
Delivered(log) ==
  LET media == SelectSeq(log, LAMBDA x :
                 x.ok /\ x.type \in {"audio", "transcript", "bytes"})
  IN [i \in 1..Len(media) |-> [type |-> media[i].type, data |-> media[i].data]]

RECURSIVE IsSubseq(_, _)
IsSubseq(s, t) ==
  IF s = <<>> THEN TRUE
  ELSE IF t = <<>> THEN FALSE
  ELSE IF Head(s) = Head(t) THEN IsSubseq(Tail(s), Tail(t))
  ELSE IsSubseq(s, Tail(t))

\* the bytes a handler forwards for the client frame m
ForwardedBytes(e, m) == IF e = "bvoice" THEN m.data ELSE B64Decode(m.data).bytes

RECURSIVE AllParts(_)
AllParts(chunks) ==
  IF chunks = <<>> THEN <<>> ELSE Head(chunks) \o AllParts(Tail(chunks))

CountParts(chunks, Test(_)) == Len(SelectSeq(AllParts(chunks), Test))

\* the number of sends of the given types attempted on the client socket
CountSent(log, types) == Len(SelectSeq(log, LAMBDA x : x.type \in types))

C14_EveryPartForwarded ==
  (/\ ep[Relay] \in RelayEps
   /\ client_open[Relay]
   /\ (ep[Relay] = LiveEp => is_running[Relay]))
  => /\ CountSent(client_log[Relay], {"audio"})
          = CountParts(up_log[Relay], LAMBDA p : p.inline)
     /\ CountSent(client_log[Relay], {"transcript", "response"})
          = CountParts(up_log[Relay], LAMBDA p : p.text)

\* live_session's receive_from_flutter reads the frame in flight in this step
LiveReads(c) ==
  /\ ep[c] = LiveEp
  /\ recv_task[c] = "run"
  /\ inbox[c] # <<>>
  /\ inbox'[c] = <<>>

Registered(c) ==
  \/ ep[c] \in BackendEps /\ active_sessions[sid[c]] = c
  \/ ep[c] \in AppEps /\ app_sessions[sid[c]] = c
  \/ ep[c] \in HealthEps /\ c \in health_sessions

\* C16: sessions do not affect each other.  The registry entry of a voice or
\* video session of backend/main.py or hf_space/app.py stays mapped to that
\* session until the session's own handler ends: no step of another session
\* removes or replaces it.
C16_SessionsIsolated ==
  [][\A c \in Conns :
       (Registered(c) /\ ~Registered(c)') => (pc[c] # "done" /\ pc'[c] = "done")]_vars

\* C17: no registry entry is leaked.  The step in which a registering
\* handler returns leaves its session id out of its registry, and a handler
\* that has returned never owns an entry.
C17_NoEntryLeaked ==
  /\ [][\A c \in Conns :
          (pc[c] # "done" /\ pc'[c] = "done")
            => /\ ep[c] \in BackendEps => active_sessions'[sid[c]] = NoConn
               /\ ep[c] \in AppEps => app_sessions'[sid[c]] = NoConn
               /\ ep[c] = "consult" => c \notin health_sessions']_vars
  /\ [](\A c \in Conns :
          pc[c] = "done"
            => /\ active_sessions[sid[c]] # c
               /\ app_sessions[sid[c]] # c
               /\ c \notin health_sessions)

C17_Witness ==
  /\ ep[Relay] = "avoice"
  /\ pc[Relay] = "done"
  /\ Len(client_log[Relay]) = 3
  /\ client_log[Relay][1].type = "ready" /\ client_log[Relay][1].ok
  /\ client_log[Relay][3].type = "error" /\ ~client_log[Relay][3].ok
  /\ app_sessions[sid[Relay]] = NoConn

\* C18: every session of kind voice, video, consultation, prescription or
\* vaccination has an entry in the session registry from the moment its
\* socket is accepted until it disconnects or fails.  Stated for a handler
\* that has gone past its first statements after accept() and has not ended.
C18_AcceptedIsRegistered ==
  \A c \in Conns :
    (ep[c] \in RegistryEps \cup HealthEps /\ pc[c] \notin {"idle", "accepted", "done"})
      => Registered(c)

\* C19: recall never raises.  get_health_context, get_medications and
\* get_vaccinations let no exception reach the caller, and return an empty
\* result (empty string or empty list) when the memory client is absent or the
\* backend search raises, for every dog_id and query.
C19_RecallNeverRaises ==
  mem_ret.fn \in RecallFns =>
    /\ ~mem_ret.ret.raised
    /\ (~mem_ret.client \/ mem_ret.backend = "raise") => mem_ret.ret.value = <<>>

C19_Witness ==
  /\ mem_ret.fn = "get_medications"
  /\ mem_ret.client
  /\ mem_ret.backend = "raise"
  /\ mem_ret.ret.calls # <<>>
  /\ mem_ret.ret.line = "Mem0 get medications error"

\* C20: remember is best-effort with a boolean result.  add_consultation_memory,
\* add_medication, add_vaccination and store_consultation_findings let no
\* exception reach the caller, return True exactly when the backend add call
\* was issued and completed without raising, and return False when the client
\* is absent or the add call raises.
C20_RememberBoolean ==
  mem_ret.fn \in RememberFns =>
    /\ ~mem_ret.ret.raised
    /\ mem_ret.ret.value \in BOOLEAN
    /\ mem_ret.ret.value <=> (mem_ret.ret.calls # <<>> /\ mem_ret.add_ok)
    /\ ~mem_ret.client => (~mem_ret.ret.value /\ mem_ret.ret.calls = <<>>)
    /\ (mem_ret.client /\ ~mem_ret.add_ok) => ~mem_ret.ret.value

C20_Witness ==
  /\ mem_ret.fn = "add_medication"
  /\ mem_ret.client
  /\ ~mem_ret.add_ok
  /\ mem_ret.ret.calls # <<>>
  /\ mem_ret.ret.value = FALSE

\* C23: for all inputs, the prompt returned by build_consultation_prompt, by
\* build_health_prompt of app.py and by _build_health_prompt of backend/main.py
\* contains the dog name and the user message, each as an unmodified
\* contiguous substring.
C23_PromptKeepsMessage ==
  prompt_ret.fn \in PromptFns =>
    /\ Contains(prompt_ret.prompt, prompt_ret.user_message)
    /\ Contains(prompt_ret.prompt, prompt_ret.dog_name)

C23_Witness ==
  /\ prompt_ret.fn = "build_consultation_prompt"
  /\ prompt_ret.user_message = << "a", "{" >>
  /\ prompt_ret.dog_name = << "{", "a" >>
  /\ Contains(prompt_ret.prompt, << "\n\nUSER QUESTION: ", "a", "{", "\n\nINSTRUCTIONS:\n" >>)

\* C26: the session_id returned by the text consultation endpoint depends
\* only on the hash of the message text: within one process, two requests
\* with the same message text receive the same session_id, whatever the dog
\* and whenever they are made.
C26_SessionIdFromMessage ==
  \A i, j \in 1..Len(text_app.replies) :
    LET a == text_app.replies[i]
        b == text_app.replies[j]
    IN (a.status = 200 /\ b.status = 200 /\ a.request.message = b.request.message)
         => a.session_id = b.session_id

C26_Witness ==
  /\ Len(text_app.replies) = 2
  /\ text_app.replies[1].status = 200
  /\ text_app.replies[2].status = 200
  /\ text_app.replies[1].request.message = text_app.replies[2].request.message
  /\ text_app.replies[1].request.dog_name # text_app.replies[2].request.dog_name
  /\ text_app.replies[1].session_id = << "text_", "1", "2", "3", "4", "5", "6", "7", "8" >>

\* the ready messages a handler has tried to send
Readys(c) == {i \in 1..Len(client_log[c]) : client_log[c][i].type = "ready"}

\* C27: in voice_websocket and video_websocket of backend/main.py the ready
\* message is sent at most once per session, only after the upstream live
\* connection was opened and the session inserted in active_sessions, and
\* before any client frame is read or forwarded; when the upstream connection
\* cannot be opened no ready message is sent.
C27_ReadyOnceAfterConnect ==
  /\ [](\A c \in Conns : ep[c] \in BackendEps =>
          /\ Cardinality(Readys(c)) <= 1
          /\ upstream[c] = "none" => Readys(c) = {}
          /\ (up_calls[c] # <<>> \/ recv_calls[c] # <<>> \/ n_client[c] > Len(inbox[c]))
               => (Readys(c) = {1} /\ client_log[c][1].ok))
  /\ [][\A c \in Conns : ep[c] \in BackendEps =>
          /\ (Readys(c)' # Readys(c)) =>
                /\ pc[c] = "ready"
                /\ upstream[c] = "open"
                /\ up_calls[c] = <<>> /\ recv_calls[c] = <<>>
                /\ n_client[c] = Len(inbox[c])
          /\ (pc[c] # "ready" /\ pc'[c] = "ready") =>
                /\ upstream[c] = "none" /\ upstream'[c] = "open"
                /\ active_sessions'[sid[c]] = c]_vars

C27_Witness ==
  /\ ep["c1"] = "bvideo"
  /\ Readys("c1") = {1}
  /\ client_log["c1"][1].ok
  /\ Len(up_calls["c1"]) = 1
  /\ ep["c2"] = "bvoice"
  /\ upstream["c2"] = "none"
  /\ pc["c2"] = "done"
  /\ Len(client_log["c2"]) = 1

\* the steps of one kind among the steps logged for a request
Kinds(steps, kind) == SelectSeq(steps, LAMBDA x : x.kind = kind)

\* C21: in consultation_websocket, for every non-empty client message and
\* whether the memory service is absent, unconfigured or failing on search or
\* add, the handler builds the prompt from the live user message, makes the
\* generation call (when a generation client is configured) and sends one
\* reply, which is an error only when the generation raised; a memory failure
\* never ends the session: while the client is connected the handler is back
\* at its receive and still registered.
C21_MemoryFailureTolerated ==
  \A c \in Conns : ep[c] = "consult" =>
    /\ \A i \in 1..Len(req_log[c]) :
         LET r == req_log[c][i]
             prompts == Kinds(r.steps, "prompt")
             gens == Kinds(r.steps, "generate")
             sends == Kinds(r.steps, "send")
         IN Get(r.m, "message", "") # "" =>
              /\ Len(prompts) = 1
              /\ Contains(prompts[1].prompt,
                          << "\n\nUSER QUESTION: ", Get(r.m, "message", "") >>)
              /\ Len(gens) = IF genai_client THEN 1 ELSE 0
              /\ \A j \in 1..Len(gens) : gens[j].prompt = prompts[1].prompt
              /\ sends # <<>>
              /\ sends[1].type =
                   IF \E j \in 1..Len(gens) : ~gens[j].ok THEN "error" ELSE "response"
              /\ sends[1].ok => Len(sends) = 1
    /\ (client_open[c] /\ req_log[c] # <<>>) => (pc[c] = "recv" /\ c \in health_sessions)

C21_Witness ==
  /\ ep[Relay] = "consult"
  /\ mem0_service = "ok"
  /\ genai_client
  /\ Len(req_log[Relay]) = 1
  /\ LET steps == req_log[Relay][1].steps
         mems == Kinds(steps, "mem")
     IN /\ Len(mems) = 3
        /\ \A j \in 1..3 : ~mems[j].ok
        /\ Kinds(steps, "generate")[1].ok
        /\ steps[Len(steps)].type = "response"
        /\ steps[Len(steps)].ok
  /\ pc[Relay] = "recv"

\* consultation_websocket reads in this step a request whose message is
\* missing or empty
ReadsEmpty(c) ==
  /\ ep[c] = "consult"
  /\ pc[c] = "recv"
  /\ inbox[c] # <<>>
  /\ inbox'[c] = <<>>
  /\ Get(inbox[c][1], "message", "") = ""

\* C22: in consultation_websocket a client message whose message field is
\* missing or empty is a recoverable error: the handler sends exactly one
\* error reply, issues no memory call and no generation call for it, and, the
\* client being connected, keeps the session's registry entry and is back at
\* its receive for the next client message.
C22_EmptyMessageRecoverable ==
  [][\A c \in Conns : ReadsEmpty(c) =>
       /\ mem_calls'[c] = mem_calls[c]
       /\ gen_calls'[c] = gen_calls[c]
       /\ Len(client_log'[c]) = Len(client_log[c]) + 1
       /\ SubSeq(client_log'[c], 1, Len(client_log[c])) = client_log[c]
       /\ client_log'[c][Len(client_log'[c])].type = "error"
       /\ Len(req_log'[c]) = Len(req_log[c]) + 1
       /\ Len(req_log'[c][Len(req_log'[c])].steps) = 1
       /\ client_open[c] => (pc'[c] = "recv" /\ c \in health_sessions')]_vars

C22_Witness ==
  /\ ep[Relay] = "consult"
  /\ Len(req_log[Relay]) = 2
  /\ "message" \notin DOMAIN req_log[Relay][1].m
  /\ Get(req_log[Relay][2].m, "message", "") = "limping"
  /\ Len(client_log[Relay]) = 3
  /\ client_log[Relay][2].type = "error"
  /\ client_log[Relay][2].ok
  /\ client_log[Relay][3].type = "response"
  /\ client_log[Relay][3].ok
  /\ Relay \in health_sessions

\* two requests that differ at most in their "mode"
SameButMode(m1, m2) ==
  /\ DOMAIN m1 \ {"mode"} = DOMAIN m2 \ {"mode"}
  /\ \A k \in DOMAIN m1 \ {"mode"} : m1[k] = m2[k]

\* what a step asks of the outside, texts of prompts and replies left out: the
\* backend call, the generation call, the type of the message sent
CallOf(step) ==
  IF step.kind = "mem" THEN [kind |-> "mem", call |-> step.call]
  ELSE IF step.kind = "send" THEN [kind |-> "send", type |-> step.type]
  ELSE [kind |-> step.kind]

\* what the outside answered to a step
ReplyOf(step) == IF step.kind = "prompt" THEN TRUE ELSE step.ok

\* the consultation requests handled so far, over all connections
ConsultRecords ==
  UNION {{req_log[c][i] : i \in 1..Len(req_log[c])} :
           c \in {d \in Conns : ep[d] = "consult"}}

\* two runs of steps go in lockstep: as long as the outside answered the same,
\* the next step of both is the same call, and they end together
Lockstep(s1, s2) ==
  \A i \in 1..(IF Len(s1) > Len(s2) THEN Len(s1) ELSE Len(s2)) :
    (\A j \in 1..(i - 1) : ReplyOf(s1[j]) = ReplyOf(s2[j])) =>
      /\ i <= Len(s1)
      /\ i <= Len(s2)
      /\ CallOf(s1[i]) = CallOf(s2[i])

\* C24: two consultation requests that carry the same fields and differ only
\* in "mode" (voice, video, emergency, an unknown mode, or none) are handled
\* by the same sequence of memory calls, generation calls and sends of the
\* same types, as long as the outside answers the same: the mode only changes
\* the text of the prompt, and no request is routed to a local path.
C24_ModeKeepsControlFlow ==
  \A r1, r2 \in ConsultRecords :
    SameButMode(r1.m, r2.m) => Lockstep(r1.steps, r2.steps)

C24_Witness ==
  /\ mem0_service = "ok"
  /\ genai_client
  /\ \E c1, c2 \in Conns :
       /\ ep[c1] = "consult" /\ ep[c2] = "consult"
       /\ Len(req_log[c1]) = 1 /\ Len(req_log[c2]) = 1
       /\ LET r1 == req_log[c1][1]
              r2 == req_log[c2][1]
          IN /\ Get(r1.m, "mode", "text") = "emergency"
             /\ Get(r2.m, "mode", "text") = "triage"
             /\ SameButMode(r1.m, r2.m)
             /\ Len(r1.steps) = 6
             /\ \A j \in 1..6 : ReplyOf(r1.steps[j]) = ReplyOf(r2.steps[j])
             /\ Kinds(r1.steps, "prompt")[1].prompt # Kinds(r2.steps, "prompt")[1].prompt

\* the subject of a request: its "dog_id", or the default id
SubjectOf(m) == Get(m, "dog_id", "default")

\* C25: every memory add and search a handler issues for a request, on any of
\* the three health endpoints, is keyed by the dog_id of that request, or by
\* "default" when the request carries none; with requests of several
\* connections handled in any order, the calls a connection made are all
\* under the subject of its own request.
C25_MemoryKeyedBySubject ==
  \A c \in Conns :
    /\ \A i \in 1..Len(req_log[c]) :
         LET r == req_log[c][i]
             mems == Kinds(r.steps, "mem")
         IN \A j \in 1..Len(mems) : mems[j].call.user_id = SubjectOf(r.m)
    /\ Len(req_log[c]) <= 1
    /\ \A j \in 1..Len(mem_calls[c]) :
         /\ req_log[c] # <<>>
         /\ mem_calls[c][j].user_id = SubjectOf(req_log[c][1].m)

C25_Witness ==
  /\ mem0_service = "ok"
  /\ \E c1, c2 \in Conns :
       /\ ep[c1] = "consult" /\ ep[c2] = "presc"
       /\ Len(req_log[c1]) = 1 /\ Len(req_log[c2]) = 1
       /\ SubjectOf(req_log[c1][1].m) = "rex"
       /\ "dog_id" \notin DOMAIN req_log[c2][1].m
       /\ Len(mem_calls[c1]) = 3
       /\ Len(mem_calls[c2]) = 1
       /\ Kinds(req_log[c2][1].steps, "mem")[1].call.user_id = "default"
       /\ Kinds(req_log[c1][1].steps, "mem")[3].call.user_id = "rex"

\* the positions of the steps of a kind (and, for a memory call, of an
\* operation and a role) in the steps of one request
StepsAt(steps, kind) == {i \in 1..Len(steps) : steps[i].kind = kind}

MemAt(steps, op, role) ==
  {i \in StepsAt(steps, "mem") :
     /\ steps[i].call.op = op
     /\ op = "add" => steps[i].call.role = role}

\* every position of a is before every position of b
Before(a, b) == \A i \in a, j \in b : i < j

\* C28: for one non-empty message consultation_websocket searches memory,
\* stores the user message, builds the prompt, calls the generation, stores
\* the assistant reply and sends the response, in this order.  With a working
\* memory service there is one search and one store of the user message,
\* also when the generation raises; the store of the assistant reply is
\* issued exactly when the generation did not raise, after the generation
\* call and before the response is sent; the search comes before any store,
\* so the context in the prompt is the one recalled before the message was
\* stored.  (Without a generation client no generation call is made and the
\* fixed fallback text takes the place of the reply.)
C28_ConsultationStepOrder ==
  \A c \in Conns : ep[c] = "consult" =>
    \A i \in 1..Len(req_log[c]) :
      LET r == req_log[c][i]
          steps == r.steps
          search == MemAt(steps, "search", "")
          user == MemAt(steps, "add", "user")
          assistant == MemAt(steps, "add", "assistant")
          prompt == StepsAt(steps, "prompt")
          gen == StepsAt(steps, "generate")
          send == StepsAt(steps, "send")
          raised == \E j \in gen : ~steps[j].ok
      IN Get(r.m, "message", "") # "" =>
           /\ Before(search, user) /\ Before(user, prompt) /\ Before(prompt, gen)
           /\ Before(gen, assistant) /\ Before(assistant, send)
           /\ Before(search, prompt) /\ Before(prompt, send) /\ Before(gen, send)
           /\ Cardinality(prompt) = 1
           /\ Cardinality(search) = IF mem0_service = "ok" THEN 1 ELSE 0
           /\ Cardinality(user) = IF mem0_service = "ok" THEN 1 ELSE 0
           /\ \A j \in user : steps[j].call.content = Text(Get(r.m, "message", ""))
           /\ Cardinality(assistant) = IF mem0_service = "ok" /\ ~raised THEN 1 ELSE 0
           /\ \A j \in assistant, k \in send : steps[k].type = "response" => j < k
           /\ raised => \A k \in send : steps[k].type = "error"
           /\ \A j \in search : steps[j].call.query = Get(r.m, "message", "")

C28_Witness ==
  /\ ep[Relay] = "consult"
  /\ mem0_service = "ok"
  /\ genai_client
  /\ Len(req_log[Relay]) = 2
  /\ LET s1 == req_log[Relay][1].steps
         s2 == req_log[Relay][2].steps
     IN /\ Len(s1) = 5
        /\ ~s1[4].ok
        /\ MemAt(s1, "add", "user") = {2}
        /\ MemAt(s1, "add", "assistant") = {}
        /\ Len(s2) = 6
        /\ MemAt(s2, "search", "") = {1}
        /\ MemAt(s2, "add", "assistant") = {5}
        /\ s2[6].type = "response"

\* C29: when no generation client is configured, consultation_websocket
\* answers each non-empty message without a generation call by a message of
\* type "response", never "error", whose text is the fixed "AI service is not
\* configured" text; with a working memory service that text is stored as an
\* assistant message under the subject of the request, before the send.
C29_NotConfiguredFallback ==
  ~genai_client =>
    \A c \in Conns : ep[c] = "consult" =>
      /\ gen_calls[c] = <<>>
      /\ \A i \in 1..Len(req_log[c]) :
           LET r == req_log[c][i]
               steps == r.steps
               sends == Kinds(steps, "send")
               stored == MemAt(steps, "add", "assistant")
           IN Get(r.m, "message", "") # "" =>
                /\ StepsAt(steps, "generate") = {}
                /\ Len(sends) >= 1
                /\ sends[1].type = "response"
                /\ sends[1].text = NotConfiguredText
                /\ sends[1].ok => Len(sends) = 1
                /\ Cardinality(stored) = IF mem0_service = "ok" THEN 1 ELSE 0
                /\ \A j \in stored :
                     /\ steps[j].call.content = NotConfiguredText
                     /\ steps[j].call.user_id = SubjectOf(r.m)
                     /\ Before({j}, StepsAt(steps, "send"))

C29_Witness ==
  /\ ~genai_client
  /\ mem0_service = "ok"
  /\ ep[Relay] = "consult"
  /\ Len(req_log[Relay]) = 1
  /\ LET steps == req_log[Relay][1].steps
     IN /\ Len(steps) = 5
        /\ steps[4].call.role = "assistant"
        /\ steps[4].call.content = NotConfiguredText
        /\ steps[5].type = "response"
        /\ steps[5].ok
  /\ Len(client_log[Relay]) = 2
  /\ client_log[Relay][2].type = "response"

\* the requests with action "add" handled so far on a connection
AddRecords(c) == SelectSeq(req_log[c], LAMBDA r : Get(r.m, "action", "list") = "add")

\* C30: on /ws/prescription and /ws/vaccination a request with action "add"
\* is answered by exactly one message, of type "response" and action "added"
\* and naming the item of the request, and by nothing else: the same when no
\* memory service is present or the item is empty (no add call is issued) and
\* when the one add call that was issued failed.
C30_AddAlwaysAnswersAdded ==
  \A c \in Conns : ep[c] \in {"presc", "vacc"} =>
    \A i \in 1..Len(AddRecords(c)) :
      LET r == AddRecords(c)[i]
          item == Get(r.m, "item", "")
          sends == Kinds(r.steps, "send")
          mems == Kinds(r.steps, "mem")
      IN /\ Len(sends) = 1
         /\ sends[1].type = "response"
         /\ sends[1].action = "added"
         /\ sends[1].text = Text(item)
         /\ r.steps[Len(r.steps)] = sends[1]
         /\ Len(mems) = IF mem0_service = "ok" /\ item # "" THEN 1 ELSE 0
         /\ \A j \in 1..Len(mems) : mems[j].call.op = "add"
         /\ Len(r.steps) = Len(sends) + Len(mems)

C30_Witness ==
  /\ mem0_service = "ok"
  /\ ep[Relay] \in {"presc", "vacc"}
  /\ Len(AddRecords(Relay)) = 2
  /\ LET r1 == AddRecords(Relay)[1]
         r2 == AddRecords(Relay)[2]
     IN /\ Get(r1.m, "item", "") = ""
        /\ Len(r1.steps) = 1
        /\ Get(r2.m, "item", "") # ""
        /\ Len(r2.steps) = 2
        /\ ~r2.steps[1].ok
        /\ r1.steps[1].action = "added"
        /\ r2.steps[2].action = "added"
  /\ Len(SelectSeq(client_log[Relay], LAMBDA x : x.type = "response")) = 2
  /\ \A j \in 1..Len(client_log[Relay]) : client_log[Relay][j].type # "error"

\* prescription_websocket / vaccination_websocket reads a request in this step
ReadsAction(c) ==
  /\ ep[c] \in {"presc", "vacc"}
  /\ pc[c] = "recv"
  /\ inbox[c] # <<>>
  /\ inbox'[c] = <<>>

\* the actions that have a branch in the handler of an endpoint
HandledActions(e) == {"add", "list", AiAction(e)}

\* C31: on /ws/prescription and /ws/vaccination the step that handles one
\* request sends at most one message; for the actions add, list and
\* check_interaction / booster_due it sends exactly one when nothing raised
\* (the handler is back at its receive), and for any other action it sends
\* nothing, makes no memory or generation call and is back at its receive
\* with the session open.
C31_OneReplyPerHandledAction ==
  [][\A c \in Conns : ReadsAction(c) =>
       LET m == inbox[c][1]
           n == Len(client_log[c])
           new == SubSeq(client_log'[c], n + 1, Len(client_log'[c]))
           rec == req_log'[c][Len(req_log'[c])]
       IN /\ Len(client_log'[c]) >= n
          /\ SubSeq(client_log'[c], 1, n) = client_log[c]
          /\ Len(req_log'[c]) = Len(req_log[c]) + 1
          /\ rec.m = m
          /\ Len(Kinds(rec.steps, "send")) = Len(new)
          /\ Get(m, "action", "list") \in HandledActions(ep[c]) =>
               /\ Len(new) <= 1
               /\ pc'[c] = "recv" =>
                    /\ Len(new) = 1
                    /\ new[1].ok
                    /\ exc'[c] = exc[c]
          /\ Get(m, "action", "list") \notin HandledActions(ep[c]) =>
               /\ new = <<>>
               /\ pc'[c] = "recv"
               /\ exc'[c] = exc[c]
               /\ client_open'[c] = client_open[c]
               /\ mem_calls'[c] = mem_calls[c]
               /\ gen_calls'[c] = gen_calls[c]]_vars

C31_Witness ==
  /\ ep[Relay] = "presc"
  /\ genai_client
  /\ Len(req_log[Relay]) = 2
  /\ req_log[Relay][1].m.action = "refill"
  /\ req_log[Relay][1].steps = <<>>
  /\ req_log[Relay][2].m.action = "check_interaction"
  /\ Len(client_log[Relay]) = 2
  /\ client_log[Relay][2].type = "response"
  /\ client_log[Relay][2].ok
  /\ pc[Relay] = "recv"

\* the letters s, a, f, e in either case stand at positions i+1..i+4 of text
SafeAt(text, i) ==
  /\ text[i + 1] \in {"s", "S"}
  /\ text[i + 2] \in {"a", "A"}
  /\ text[i + 3] \in {"f", "F"}
  /\ text[i + 4] \in {"e", "E"}

\* C32: the interaction_check message carries the model's reply unchanged, and
\* its safe_to_prescribe is true exactly when the reply holds the four letters
\* s, a, f, e in a row, each in either case; so a reply with CAUTION or WARNING
\* is flagged safe as soon as it holds "unsafe" or "not safe" anywhere.
C32_SafeIsSubstringTest ==
  check_ret.fn = "check_interaction" =>
    /\ check_ret.message.type = "response"
    /\ check_ret.message.interactions = check_ret.reply
    /\ check_ret.message.safe_to_prescribe
         <=> \E i \in 0..(Len(check_ret.reply) - 4) : SafeAt(check_ret.reply, i)

C32_Witness ==
  /\ check_ret.fn = "check_interaction"
  /\ check_ret.reply = Concat(<< "WARNING: ", "unsafe" >>)
  /\ check_ret.message.safe_to_prescribe

\* C33: with no generation client configured, live_session attempts exactly
\* one send, of an error message, and returns: the connected message is never
\* sent, no upstream connection is opened, no upstream call is made, the
\* session state is never set up and no client message is ever read; when
\* the error message went out the socket has been closed by the handler.
C33_LiveNeedsClient ==
  /\ [](~genai_client =>
         \A c \in Conns : ep[c] = LiveEp =>
           /\ pc[c] \in {"accepted", "done"}
           /\ Len(client_log[c]) = IF pc[c] = "done" THEN 1 ELSE 0
           /\ \A i \in 1..Len(client_log[c]) : client_log[c][i].type = "error"
           /\ upstream[c] = "none"
           /\ up_calls[c] = <<>>
           /\ recv_calls[c] = <<>>
           /\ recv_task[c] = "none" /\ send_task[c] = "none"
           /\ ~is_running[c]
           /\ pc[c] = "done" =>
                /\ server_closed[c] = client_log[c][1].ok
                /\ client_log[c][1].ok => exc[c] = "none")
  /\ [][~genai_client =>
          \A c \in Conns : ep[c] = LiveEp =>
            (inbox[c] # <<>> => inbox'[c] = inbox[c])]_vars

C33_Witness ==
  /\ ~genai_client
  /\ ep[Relay] = LiveEp
  /\ pc[Relay] = "done"
  /\ Len(client_log[Relay]) = 1
  /\ client_log[Relay][1].type = "error"
  /\ client_log[Relay][1].ok
  /\ server_closed[Relay]
  /\ inbox[Relay] # <<>>

\* C34: when live_session reads a client message whose type is none of
\* config, audio, video, stop (text, video_frame, or no type at all), that
\* step makes no upstream call, sends nothing to the client, raises and
\* prints nothing, leaves dog_name, dog_id and is_running as they are, and
\* the inbound task stays in its loop, ready to read the next message.
C34_UnknownTypeIgnored ==
  [][(/\ LiveReads(Relay)
      /\ inbox[Relay][1].type \notin {"config", "audio", "video", "stop"})
     => /\ up_calls'[Relay] = up_calls[Relay]
        /\ client_log'[Relay] = client_log[Relay]
        /\ dog_name'[Relay] = dog_name[Relay]
        /\ dog_id'[Relay] = dog_id[Relay]
        /\ is_running'[Relay] = is_running[Relay]
        /\ printed'[Relay] = printed[Relay]
        /\ exc'[Relay] = exc[Relay]
        /\ recv_task'[Relay] = "run"
        /\ upstream'[Relay] = upstream[Relay]]_vars

C34_Witness ==
  /\ ep[Relay] = LiveEp
  /\ ignored[Relay] = 1
  /\ n_client[Relay] = 2
  /\ inbox[Relay] = <<>>
  /\ dog_name[Relay] = "Rex"
  /\ dog_id[Relay] = "rex"
  /\ is_running[Relay]
  /\ recv_task[Relay] = "run"
  /\ up_calls[Relay] = <<>>
  /\ Len(client_log[Relay]) = 1

\* C35: once live_session has set up its session state, is_running only ever
\* changes from true to false, and only in the step that reads a stop message
\* or meets the client's disconnect; that step ends the inbound task.  While
\* is_running is false no client message is read, no audio or video is
\* forwarded upstream and the flag stays false.
C35_RunningOnlyFalls ==
  [][(ep[Relay] = LiveEp /\ pc[Relay] \notin {"idle", "accepted"}) =>
       /\ is_running'[Relay] # is_running[Relay] =>
            /\ is_running[Relay] /\ ~is_running'[Relay]
            /\ \/ LiveReads(Relay) /\ inbox[Relay][1].type = "stop"
               \/ ~client_open[Relay] /\ seen_disconnect'[Relay]
       /\ (LiveReads(Relay) /\ inbox[Relay][1].type = "stop") =>
            /\ ~is_running'[Relay]
            /\ recv_task'[Relay] = "done"
            /\ up_calls'[Relay] = up_calls[Relay]
       /\ ~is_running[Relay] =>
            /\ ~is_running'[Relay]
            /\ inbox[Relay] # <<>> => inbox'[Relay] = inbox[Relay]
            /\ up_calls'[Relay] = up_calls[Relay]
            /\ recv_task'[Relay] = recv_task[Relay]]_vars

C35_Witness ==
  /\ ep[Relay] = LiveEp
  /\ genai_client
  /\ ~is_running[Relay]
  /\ recv_task[Relay] = "done"
  /\ client_open[Relay]
  /\ n_client[Relay] = 2
  /\ inbox[Relay] # <<>>
  /\ inbox[Relay][1].type = "audio"
  /\ up_calls[Relay] = <<>>
  /\ pc[Relay] = "done"

\* video_websocket of hf_space/app.py reads the frame in flight in this step
AppReads(c) ==
  /\ ep[c] = "avideo"
  /\ pc[c] = "recv"
  /\ inbox[c] # <<>>
  /\ inbox'[c] = <<>>

\* C36: in video_websocket of hf_space/app.py a frame that is not JSON or has
\* no "type", and a text_query whose generation call raises, take the handler
\* to its "except Exception" with nothing sent for the frame; from there the
\* handler attempts exactly one send, of an error message, and ends with its
\* session id removed from active_sessions, and nothing is sent afterwards.
\* A text_query read while no API key is configured makes no generation call,
\* sends nothing and leaves the handler at its receive with the session
\* registered.
C36_AppVideoErrorEndsSession ==
  [][/\ (AppReads(Relay) /\ inbox[Relay][1].type \in {"not_json", "missing"}) =>
          /\ client_log'[Relay] = client_log[Relay]
          /\ gen_calls'[Relay] = gen_calls[Relay]
          /\ pc'[Relay] = "error"
     /\ (AppReads(Relay) /\ Len(gen_calls'[Relay]) > Len(gen_calls[Relay])
           /\ ~gen_calls'[Relay][Len(gen_calls'[Relay])]) =>
          /\ client_log'[Relay] = client_log[Relay]
          /\ pc'[Relay] = "error"
     /\ (ep[Relay] = "avideo" /\ pc[Relay] = "error") =>
          \/ /\ client_log'[Relay] = client_log[Relay]
             /\ pc'[Relay] = "error"
          \/ /\ Len(client_log'[Relay]) = Len(client_log[Relay]) + 1
             /\ SubSeq(client_log'[Relay], 1, Len(client_log[Relay]))
                  = client_log[Relay]
             /\ client_log'[Relay][Len(client_log'[Relay])].type = "error"
             /\ pc'[Relay] = "done"
             /\ app_sessions'[sid[Relay]] = NoConn
     /\ (ep[Relay] = "avideo" /\ pc[Relay] = "done") =>
          /\ client_log'[Relay] = client_log[Relay]
          /\ pc'[Relay] = "done"
          /\ app_sessions'[sid[Relay]] = NoConn
     /\ (AppReads(Relay) /\ inbox[Relay][1].type = "text_query" /\ ~genai_client) =>
          /\ client_log'[Relay] = client_log[Relay]
          /\ gen_calls'[Relay] = gen_calls[Relay]
          /\ exc'[Relay] = exc[Relay]
          /\ pc'[Relay] = "recv"
          /\ app_sessions'[sid[Relay]] = Relay]_vars

C36_Witness ==
  /\ ep[Relay] = "avideo"
  /\ ~genai_client
  /\ n_client[Relay] = 2
  /\ inbox[Relay] = <<>>
  /\ pc[Relay] = "done"
  /\ Len(client_log[Relay]) = 2
  /\ client_log[Relay][1].type = "ready"
  /\ client_log[Relay][2].type = "error"
  /\ client_log[Relay][2].ok
  /\ app_sessions["s1"] = NoConn

\* C37: POST /health/text answers 200 with a full TextResponse or 500 with
\* none of it.  In hf_space/app.py a request made without an API key gets 500
\* "GEMINI_API_KEY not configured" with no prompt built and no generation
\* call; in both applications a generation call that raises gets 500 whose
\* detail is the text of the exception; a 200 carries both the response text
\* and the session_id.  The session registries are never touched.
C37_TextFailuresAre500 ==
  /\ \A i \in 1..Len(text_app.replies) :
       LET r == text_app.replies[i]
           keyless == text_app.app = "hf_space" /\ ~genai_client
       IN /\ r.status \in {200, 500}
          /\ r.status = 200 <=> (~keyless /\ r.outcome = "ok")
          /\ r.status = 200 =>
               /\ r.response # <<>>
               /\ r.session_id # <<>>
               /\ r.steps = << "prompt", "generate" >>
          /\ r.status = 500 =>
               /\ r.response = <<>>
               /\ r.session_id = <<>>
               /\ r.detail # ""
          /\ keyless =>
               /\ r.steps = <<>>
               /\ r.detail = "GEMINI_API_KEY not configured"
          /\ (~keyless /\ r.outcome # "ok") =>
               /\ r.steps = << "prompt", "generate" >>
               /\ r.detail = r.outcome
  /\ active_sessions = [s \in SessionIds |-> NoConn]
  /\ app_sessions = [s \in SessionIds |-> NoConn]
  /\ health_sessions = {}

C37_Witness ==
  /\ text_app.app = "hf_space"
  /\ genai_client
  /\ Len(text_app.replies) = 2
  /\ text_app.replies[1].status = 500
  /\ text_app.replies[1].detail = "quota exceeded"
  /\ text_app.replies[2].status = 200
  /\ text_app.replies[2].response = AiText

=============================================================================
